---------------------------- MODULE Spec2Model ----------------------------
(***************************************************************************)
(* git-wt-detach: the detach/revert engine (detach.go), the worktree-list  *)
(* parser (worktree.go) and the command runner (git.go), modelled over a   *)
(* small repository: a store of branch refs and a fixed set of worktrees.  *)
(*                                                                         *)
(* A call of Detach or Revert starts with its checks, which only query the *)
(* repository: they are one step.  Every command that changes the          *)
(* repository is a step of its own, in the order the code issues them.     *)
(* Any command may fail although git would accept it (the runner returns   *)
(* any non-zero exit as an error), except `rev-parse --verify`, whose      *)
(* failure BranchExists cannot tell from an absent ref.                    *)
(***************************************************************************)
EXTENDS Naturals, Sequences, FiniteSets, TLC

VARIABLES
    refs,     \* the ref store: branch name -> commit, for the branches that exist
    wt,       \* path -> [Branch, Head, Dirty]: the worktrees (Branch "" = detached HEAD)
    suffix,   \* Detacher.suffix
    pc,       \* the command the engine issues next inside Detach / Revert ("idle" between calls)
    call,     \* the running (or last) call: operation, branch, options, cwd's worktree
    loc,      \* the call's local variables: tmpBranch, wt, the pending checkout error
    trace,    \* the git commands the call has issued so far, with their outcome
    pre,      \* the repository as it was when the call started
    ret,      \* what the last call returned: (*Result, error)
    prev,     \* the call completed right before this one, nothing in between
    budget,   \* how many more changes the user makes to the repository by hand
    config,   \* `git config wt-detach.suffix`: <<>> when not set, else <<value>>
    last,     \* the last change asked of the suffix: SetSuffix or LoadSuffixFromConfig
    cli,      \* the command line the program was started with, and what it printed
    parse,    \* a text given to ParseWorktreeList, and the records it returned
    peer      \* a second process at work in the same repository, while it waits

vars == <<refs, wt, suffix, pc, call, loc, trace, pre, ret, prev, budget,
          config, last, cli, parse, peer>>

\* what the engine's calls and the user's git commands leave alone
aside == <<config, last, cli, parse, peer>>

---------------------------------------------------------------------------
(* The bounded universe *)

\* detach.go:9
DefaultSuffix == "__wt_detach"

\* number of changes the user makes by hand between engine calls
MaxUserOps == 2

\* number of commands of one call that fail although git would accept them
MaxFaults == 2

\* the branch names given on the command line
BranchArgs == {"main", "f"}

\* the names of the branches the user creates by hand: a branch, or the temp
\* branch of one
UserNames == BranchArgs \cup {b \o DefaultSuffix : b \in BranchArgs}

\* the worktrees in the order `git worktree list` prints them: the main one first
PathSeq == <<"/r", "/w1", "/w2">>

Paths == {PathSeq[i] : i \in 1..Len(PathSeq)}

Commits == {"c1", "c2"}

\* a suffix of the user's own
CustomSuffix == "__tmp"

\* the arguments SetSuffix is called with
SuffixArgs == {"", CustomSuffix}

\* what `git config wt-detach.suffix` can be: not set, set to nothing, set to a suffix
ConfigValues == {<<>>, <<"">>, <<CustomSuffix>>}

---------------------------------------------------------------------------
(* fmt.Sprintf / fmt.Errorf: a message is its format string and arguments *)

Sprintf(f, args) == [fmt |-> f, args |-> args]

NoMsg == Sprintf("", <<>>)

\* the error of a failed exec.Command (git.go:13, git.go:19)
ExitError == "exit status 1"

\* detach.go:142, 198
ErrNotFound(branch) == Sprintf("branch '%s' does not exist", <<branch>>)

\* detach.go:76
ErrCurrentPath == Sprintf("failed to get current worktree path: %w", <<ExitError>>)

\* detach.go:85
ErrList == Sprintf("failed to list worktrees: %w", <<ExitError>>)

\* detach.go:155
MsgNotCheckedOut(branch) ==
    Sprintf("Branch '%s' is not checked out in any other worktree", <<branch>>)

\* detach.go:161, 234
ErrUncommitted(path) ==
    Sprintf("uncommitted changes found in worktree: %s\n  Use --force to override", <<path>>)

\* detach.go:166
ErrTempBranchConflict(tmpBranch) ==
    Sprintf("temporary branch '%s' already exists. Use --revert first or delete the branch manually",
            <<tmpBranch>>)

\* detach.go:204
ErrTempBranchNotFound(tmpBranch) ==
    Sprintf("temporary branch '%s' does not exist", <<tmpBranch>>)

\* detach.go:172, 241
MsgDryRun == Sprintf("dry-run", <<>>)

\* detach.go:216
MsgWouldDelete == Sprintf("dry-run: would delete branch", <<>>)

\* detach.go:118
ErrCreate(branch) == Sprintf("failed to create branch '%s': %w", <<branch, ExitError>>)

\* detach.go:134
ErrCheckout(branch, path) ==
    Sprintf("failed to checkout '%s' in '%s': %w", <<branch, path, ExitError>>)

\* detach.go:126
ErrDelete(branch) == Sprintf("failed to delete branch '%s': %w", <<branch, ExitError>>)

\* detach.go:189
MsgDetached(branch) == Sprintf("Branch '%s' detached successfully", <<branch>>)

\* detach.go:227
MsgDeleted(tmpBranch) == Sprintf("Deleted temporary branch '%s'", <<tmpBranch>>)

\* detach.go:257
MsgRestored(branch) == Sprintf("Branch '%s' restored successfully", <<branch>>)

\* a nil *Result
NilResult == [Success |-> FALSE, Message |-> NoMsg, WorktreePath |-> "", TempBranch |-> ""]

\* a nil error
NilError == NoMsg

\* a nil *Worktree
NilWorktree == [Path |-> "", Branch |-> "", nil |-> TRUE]

Worktree(p, b) == [Path |-> p, Branch |-> b, nil |-> FALSE]


---------------------------------------------------------------------------
(* Text: the output of a command is a sequence of lines; a line is the      *)
(* sequence of the pieces the parser tells apart (a known prefix, then the  *)
(* rest), and the empty line is <<>>.                                       *)

RECURSIVE Join(_)
Join(pieces) == IF pieces = <<>> THEN "" ELSE Head(pieces) \o Join(Tail(pieces))

HasPrefix(line, p) == Len(line) > 0 /\ line[1] = p

TrimPrefix(line, p) == IF HasPrefix(line, p) THEN Join(Tail(line)) ELSE Join(line)

RECURSIVE TrimLeft(_)
TrimLeft(lines) ==
    IF lines # <<>> /\ Head(lines) = <<>> THEN TrimLeft(Tail(lines)) ELSE lines

RECURSIVE TrimRight(_)
TrimRight(lines) ==
    IF lines # <<>> /\ lines[Len(lines)] = <<>>
    THEN TrimRight(SubSeq(lines, 1, Len(lines) - 1))
    ELSE lines

\* strings.TrimSpace on a whole output: the blank lines at both ends go
TrimSpace(lines) == TrimRight(TrimLeft(lines))

---------------------------------------------------------------------------
(* worktree.go *)

\* the loop body as it would be if a blank line left the record open
ParseLineKeepOpen(st, line) ==
    IF HasPrefix(line, "worktree ")
    THEN [st EXCEPT !.current = Worktree(TrimPrefix(line, "worktree "), "")]
    ELSE IF HasPrefix(line, "branch refs/heads/")
    THEN IF ~st.current.nil
         THEN [st EXCEPT !.current.Branch = TrimPrefix(line, "branch refs/heads/")]
         ELSE st
    ELSE IF line = <<>>
    THEN IF ~st.current.nil
         THEN [st EXCEPT !.worktrees = Append(st.worktrees, st.current)]
         ELSE st
    ELSE st

\* the loop body of ParseWorktreeList: st = [worktrees, current]
ParseLine(st, line) ==
    IF HasPrefix(line, "worktree ")
    THEN [st EXCEPT !.current = Worktree(TrimPrefix(line, "worktree "), "")]
    ELSE IF HasPrefix(line, "branch refs/heads/")
    THEN IF ~st.current.nil
         THEN [st EXCEPT !.current.Branch = TrimPrefix(line, "branch refs/heads/")]
         ELSE st
    ELSE IF line = <<>>
    THEN IF ~st.current.nil
         THEN [worktrees |-> Append(st.worktrees, st.current), current |-> NilWorktree]
         ELSE st
    ELSE st

\* bufio.MaxScanTokenSize: the scanner's buffer grows no further; a line that
\* does not fit in it ends the scan
MaxScanTokenSize == 65536

\* a stretch of text as long as that buffer
LongText == "<65536 characters>"

RECURSIVE Size(_)
Size(line) ==
    IF line = <<>> THEN 0
    ELSE (IF Head(line) = LongText THEN MaxScanTokenSize ELSE Len(Head(line)))
            + Size(Tail(line))

\* scanner.Scan() gives the next line
Scans(line) == Size(line) < MaxScanTokenSize

\* the loop `for scanner.Scan()`
RECURSIVE ParseLines(_, _)
ParseLines(st, lines) ==
    IF lines = <<>> \/ ~Scans(Head(lines)) THEN st
    ELSE ParseLines(ParseLine(st, Head(lines)), Tail(lines))

\* the parser as it would be without the append after the loop
ParseWorktreeListNoFlush(output) ==
    ParseLines([worktrees |-> <<>>, current |-> NilWorktree], output).worktrees

ParseWorktreeList(output) ==
    LET st == ParseLines([worktrees |-> <<>>, current |-> NilWorktree], output)
    IN  IF ~st.current.nil THEN Append(st.worktrees, st.current) ELSE st.worktrees

\* the lookup as it would be if the loop went on after a hit
FindWorktreeByBranchLast(worktrees, branch, excludePath) ==
    LET hits == {i \in 1..Len(worktrees) :
                    worktrees[i].Branch = branch /\ worktrees[i].Path # excludePath}
    IN  IF hits = {} THEN NilWorktree
        ELSE worktrees[CHOOSE i \in hits : \A j \in hits : j <= i]

\* the lookup as it would be if the excluded path were not compared
FindWorktreeByBranchAny(worktrees, branch, excludePath) ==
    LET hits == {i \in 1..Len(worktrees) : worktrees[i].Branch = branch}
    IN  IF hits = {} THEN NilWorktree
        ELSE worktrees[CHOOSE i \in hits : \A j \in hits : i <= j]

FindWorktreeByBranch(worktrees, branch, excludePath) ==
    LET hits == {i \in 1..Len(worktrees) :
                    worktrees[i].Branch = branch /\ worktrees[i].Path # excludePath}
    IN  IF hits = {} THEN NilWorktree
        ELSE worktrees[CHOOSE i \in hits : \A j \in hits : i <= j]

---------------------------------------------------------------------------
(* git, as the runner of git.go sees it: what each command prints or does  *)
(* to the repository (r = refs, w = worktrees) when git accepts it.        *)

\* `git worktree list --porcelain`: one block per worktree, each closed by a blank line
PorcelainBlock(w, p) ==
    << <<"worktree ", p>>,
       <<"HEAD ", w[p].Head>>,
       IF w[p].Branch = "" THEN <<"detached">> ELSE <<"branch refs/heads/", w[p].Branch>>,
       <<>> >>

RECURSIVE PorcelainFrom(_, _)
PorcelainFrom(w, i) ==
    IF i > Len(PathSeq) THEN <<>> ELSE PorcelainBlock(w, PathSeq[i]) \o PorcelainFrom(w, i + 1)

GitWorktreeList(w) == PorcelainFrom(w, 1)

\* the branch is checked out in some worktree other than `dir` ("" = in any worktree)
CheckedOutElsewhere(w, name, dir) == \E p \in Paths : p # dir /\ w[p].Branch = name

\* `git rev-parse --verify refs/heads/<name>` exits 0
GitRevParseVerifyOk(r, name) == name \in DOMAIN r

\* the creation as git would judge it with --force
GitBranchForced(r, name) == TRUE

\* `git -C <dir> branch <name>`: refused when the name is taken
GitBranchOk(r, name) == name \notin DOMAIN r

GitBranch(r, w, dir, name) == r @@ (name :> w[dir].Head)

\* `git -C <dir> checkout <name>`: refused when the branch is missing or is
\* checked out in another worktree
GitCheckoutOk(r, w, dir, name) ==
    name \in DOMAIN r /\ ~CheckedOutElsewhere(w, name, dir)

GitCheckout(r, w, dir, name) ==
    [w EXCEPT ![dir].Branch = name, ![dir].Head = r[name]]

\* `git branch -D <name>`: refused when the branch is missing or checked out
\* in any worktree
GitBranchDeleteOk(r, w, name) ==
    name \in DOMAIN r /\ ~CheckedOutElsewhere(w, name, "")

GitBranchDelete(r, name) == [n \in DOMAIN r \ {name} |-> r[n]]

\* `git -C <dir> status --porcelain`: the changed files, none in a clean worktree
GitStatus(w, dir) == IF w[dir].Dirty THEN << <<" M ", "file.txt">> >> ELSE <<>>

---------------------------------------------------------------------------
(* detach.go: the helpers *)

\* `git config --get wt-detach.suffix`: the value on a line of its own; exit
\* status 1 when the key is not set
GitConfigGetOk(cfg) == cfg # <<>>

GitConfigGet(cfg) == IF cfg = <<>> \/ cfg[1] = "" THEN << <<>> >> ELSE << <<cfg[1]>> >>

\* SetSuffix as it would be without the test of the argument
SetSuffixAny(s) == s

\* SetSuffix, 43-47: d.suffix after the call
SetSuffix(s) == IF s # "" THEN s ELSE suffix

\* LoadSuffixFromConfig, 55-59: d.suffix after the call, the query having
\* succeeded or not
LoadSuffixFromConfig(ok) ==
    LET out == TrimSpace(GitConfigGet(config))
    IN  IF ok /\ out # <<>> THEN Join(out[1]) ELSE suffix

\* NewDetacher, 35-40
NewDetacher == [suffix |-> DefaultSuffix]

\* the temp branch name as it would be if the Detacher remembered the name its
\* last Detach of the branch returned
TempBranchNameRemembered(branch) ==
    IF call.op = "Detach" /\ call.branch = branch /\ ret.done /\ ret.result.TempBranch # ""
    THEN ret.result.TempBranch
    ELSE branch \o suffix

\* the temp branch name as it would be with the constant for the field
TempBranchNameDefault(branch) == branch \o DefaultSuffix

TempBranchName(branch) == branch \o suffix

\* the test as it would be if the command's error were dropped
BranchExistsAlways(branch) == TRUE

BranchExists(branch) == GitRevParseVerifyOk(refs, branch)

\* the record of one git command in `trace`: its outcome, and whether it failed
\* although git would accept it
Cmd(name, dir, arg, ok, fault) ==
    [cmd |-> name, dir |-> dir, arg |-> arg, ok |-> ok, fault |-> fault]

\* a query, which git always accepts
Query(name, dir, arg, ok) == Cmd(name, dir, arg, ok, ~ok)

\* `rev-parse --verify`, which fails for an absent ref only
Verify(dir, name) == Cmd("rev-parse --verify", dir, name, GitRevParseVerifyOk(refs, name), FALSE)

\* the outcomes of the queries of one call: which of them succeed.  A call goes
\* past at most one failing query (a failed status query, under force)
AllOk == [toplevel |-> TRUE, list |-> TRUE, status |-> TRUE]

QueryOutcomes ==
    {AllOk, [AllOk EXCEPT !.toplevel = FALSE], [AllOk EXCEPT !.list = FALSE],
     [AllOk EXCEPT !.status = FALSE]}

\* GetCurrentWorktreePath: (path, err)
GetCurrentWorktreePath(cwd, q) ==
    IF q.toplevel
    THEN [path |-> cwd, err |-> NilError]
    ELSE [path |-> "", err |-> ErrCurrentPath]

\* ListWorktrees: (worktrees, err); the runner trims the output, the parser reads it
ListWorktrees(q) ==
    IF q.list
    THEN [worktrees |-> ParseWorktreeList(TrimSpace(GitWorktreeList(wt))), err |-> NilError]
    ELSE [worktrees |-> <<>>, err |-> ErrList]

\* the lookup as it would be if the current worktree were not passed on
FindWorktreeForBranchAnywhere(branch, cwd, q) ==
    LET cur == GetCurrentWorktreePath(cwd, q)
        c1  == Query("rev-parse --show-toplevel", cwd, "", q.toplevel)
        all == ListWorktrees(q)
        c2  == Query("worktree list --porcelain", cwd, "", q.list)
    IN  IF cur.err # NilError
        THEN [wt |-> NilWorktree, err |-> cur.err, cmds |-> <<c1>>]
        ELSE IF all.err # NilError
        THEN [wt |-> NilWorktree, err |-> all.err, cmds |-> <<c1, c2>>]
        ELSE [wt |-> FindWorktreeByBranch(all.worktrees, branch, ""),
              err |-> NilError, cmds |-> <<c1, c2>>]

\* FindWorktreeForBranch: (wt, err), and the commands it issued
FindWorktreeForBranch(branch, cwd, q) ==
    LET cur == GetCurrentWorktreePath(cwd, q)
        c1  == Query("rev-parse --show-toplevel", cwd, "", q.toplevel)
        all == ListWorktrees(q)
        c2  == Query("worktree list --porcelain", cwd, "", q.list)
    IN  IF cur.err # NilError
        THEN [wt |-> NilWorktree, err |-> cur.err, cmds |-> <<c1>>]
        ELSE IF all.err # NilError
        THEN [wt |-> NilWorktree, err |-> all.err, cmds |-> <<c1, c2>>]
        ELSE [wt |-> FindWorktreeByBranch(all.worktrees, branch, cur.path),
              err |-> NilError, cmds |-> <<c1, c2>>]

\* the test as it would be if a failed status query counted as no changes
HasUncommittedChangesFailOpen(worktreePath, q) ==
    IF ~q.status THEN FALSE ELSE TrimSpace(GitStatus(wt, worktreePath)) # <<>>

\* HasUncommittedChanges: a failed status query counts as changes
HasUncommittedChanges(worktreePath, q) ==
    IF ~q.status THEN TRUE ELSE TrimSpace(GitStatus(wt, worktreePath)) # <<>>

---------------------------------------------------------------------------
(* The state between and inside calls *)

Options == [DryRun : BOOLEAN, Force : BOOLEAN]

NoCall == [op |-> "none", branch |-> "", opts |-> [DryRun |-> FALSE, Force |-> FALSE], cwd |-> ""]

NoLoc == [tmpBranch |-> "", wt |-> NilWorktree]

NoRet == [done |-> FALSE, result |-> NilResult, err |-> NilError]

NoPre == [refs |-> <<>>, wt |-> <<>>, suffix |-> ""]

NoPrev == [call |-> NoCall, ret |-> NoRet, trace |-> <<>>]

NoLast == [op |-> "none", arg |-> "", ok |-> TRUE, before |-> ""]

NoCLI == [started |-> FALSE]

\* no call of FindWorktreeByBranch yet
NoFound == [called |-> FALSE, branch |-> "", excludePath |-> "", result |-> NilWorktree]

\* the Detacher and the call of a process
NoProc ==
    [suffix |-> DefaultSuffix, pc |-> "idle", call |-> NoCall, loc |-> NoLoc,
     trace |-> <<>>, pre |-> NoPre, ret |-> NoRet]

\* the process that waits, and whether both processes have been through their
\* checks on the same branch before either issued its first changing command
NoPeer == [proc |-> NoProc, raced |-> FALSE]

NoParse == [input |-> <<>>, output |-> <<>>, done |-> FALSE, found |-> NoFound]

\* the repositories the test fixtures set up, the main worktree on main and the
\* third worktree on a detached HEAD: the branch f created or not, its temp
\* branch created or not, the second worktree on one of them or on a detached
\* HEAD, with or without an uncommitted change
FixtureWt(w1, dirty) ==
    [p \in Paths |->
        [Branch |-> IF p = "/r" THEN "main" ELSE IF p = "/w1" THEN w1 ELSE "",
         Head |-> IF p = "/w1" /\ w1 # "" THEN "c2" ELSE "c1",
         Dirty |-> p = "/w1" /\ dirty]]

FixtureRefs(hasF, hasTemp) ==
    ("main" :> "c1") @@ (IF hasF THEN ("f" :> "c2") ELSE <<>>)
                     @@ (IF hasTemp THEN ("f" \o DefaultSuffix :> "c2") ELSE <<>>)

Fixture(hasF, hasTemp, w1, dirty) ==
    /\ refs = FixtureRefs(hasF, hasTemp)
    /\ wt = FixtureWt(w1, dirty)
    /\ suffix = DefaultSuffix
    /\ pc = "idle"
    /\ call = NoCall
    /\ loc = NoLoc
    /\ trace = <<>>
    /\ pre = NoPre
    /\ ret = NoRet
    /\ prev = NoPrev
    /\ budget = MaxUserOps
    /\ last = NoLast
    /\ cli = NoCLI
    /\ peer = NoPeer

\* a freshly set up repository, which the user then works in
Init ==
    \E hasF \in BOOLEAN, w1 \in {"", "f"} :
        /\ w1 = "f" => hasF
        /\ Fixture(hasF, FALSE, w1, FALSE)
        /\ config = <<>>
        /\ parse = NoParse

\* a repository as earlier work has left it
InitSeq ==
    \E hasF \in BOOLEAN, hasTemp \in BOOLEAN, w1 \in {"", "f", "f" \o DefaultSuffix},
       dirty \in BOOLEAN :
        /\ w1 = "f" => hasF
        /\ w1 = "f" \o DefaultSuffix => hasTemp
        /\ Fixture(hasF, hasTemp, w1, dirty)
        /\ config = <<>>
        /\ parse = NoParse

\* the commands of a trace that failed although git would accept them
Faults(cmds) == Cardinality({i \in 1..Len(cmds) : cmds[i].fault})

\* the outcomes a changing command can have: success only if git accepts it, and
\* a failure of a command git would accept only while the call has failures left
Outcomes(accepted) ==
    {ok \in BOOLEAN : (ok => accepted) /\ ((~ok /\ accepted) => Faults(trace) < MaxFaults)}

\* return (result, err) to the caller
Return(result, err) ==
    /\ pc' = "idle"
    /\ ret' = [done |-> TRUE, result |-> result, err |-> err]

\* a call starts and runs its checks, which end in a return or at the first
\* changing command `next`; with `track`, a call may follow at once another call
\* on the same branch from the same directory, and the call that has just
\* returned becomes `prev`
Begin(op, branch, opts, cwd, track, chk) ==
    /\ pc = "idle"
    /\ ~ret.done \/ (track /\ ~prev.ret.done /\ branch = call.branch /\ cwd = call.cwd)
    /\ call' = [op |-> op, branch |-> branch, opts |-> opts, cwd |-> cwd]
    /\ loc' = [tmpBranch |-> chk.tmpBranch, wt |-> chk.wt]
    /\ trace' = chk.cmds
    /\ pre' = [refs |-> refs, wt |-> wt, suffix |-> suffix]
    /\ pc' = chk.next
    /\ ret' = IF chk.next = "idle"
              THEN [done |-> TRUE, result |-> chk.result, err |-> chk.err]
              ELSE NoRet
    /\ prev' = IF track /\ ret.done
               THEN [call |-> call, ret |-> ret, trace |-> trace]
               ELSE NoPrev
    /\ UNCHANGED <<refs, wt, suffix, budget>>

\* what the checks of a call come to
Checked(next, result, err, tmpBranch, found, cmds) ==
    [next |-> next, result |-> result, err |-> err,
     tmpBranch |-> tmpBranch, wt |-> found, cmds |-> cmds]

---------------------------------------------------------------------------
(* detach.go: the commands that change the repository.  Each gives the     *)
(* command line the runner gets, whether git accepts it, and the           *)
(* repository after it.                                                    *)

\* the creation as it would be through Run instead of RunInDir: in the current
\* directory, at its HEAD
CreateBranchInCwd(branch, worktreePath) ==
    [cmd |-> "branch", dir |-> call.cwd, arg |-> branch,
     accepted |-> GitBranchOk(refs, branch),
     refs |-> GitBranch(refs, wt, call.cwd, branch), wt |-> wt]

\* CreateBranch, 116-121: `git -C <worktreePath> branch <branch>`
CreateBranch(branch, worktreePath) ==
    [cmd |-> "branch", dir |-> worktreePath, arg |-> branch,
     accepted |-> GitBranchOk(refs, branch),
     refs |-> GitBranch(refs, wt, worktreePath, branch), wt |-> wt]

\* DeleteBranch, 124-129: `git branch -D <branch>`, in the current directory
DeleteBranch(branch) ==
    [cmd |-> "branch -D", dir |-> call.cwd, arg |-> branch,
     accepted |-> GitBranchDeleteOk(refs, wt, branch),
     refs |-> GitBranchDelete(refs, branch), wt |-> wt]

\* the checkout as it would be with --ignore-other-worktrees
CheckoutIgnoringOthers(worktreePath, branch) ==
    [cmd |-> "checkout", dir |-> worktreePath, arg |-> branch,
     accepted |-> branch \in DOMAIN refs,
     refs |-> refs, wt |-> GitCheckout(refs, wt, worktreePath, branch)]

\* the checkout as it would be through Run instead of RunInDir
CheckoutInCwd(worktreePath, branch) ==
    [cmd |-> "checkout", dir |-> call.cwd, arg |-> branch,
     accepted |-> GitCheckoutOk(refs, wt, call.cwd, branch),
     refs |-> refs, wt |-> GitCheckout(refs, wt, call.cwd, branch)]

\* Checkout, 132-137: `git -C <worktreePath> checkout <branch>`
Checkout(worktreePath, branch) ==
    [cmd |-> "checkout", dir |-> worktreePath, arg |-> branch,
     accepted |-> GitCheckoutOk(refs, wt, worktreePath, branch),
     refs |-> refs, wt |-> GitCheckout(refs, wt, worktreePath, branch)]

\* the runner runs the command c with outcome ok: the repository changes when it
\* succeeds, and the command is recorded
Run(c, ok) ==
    /\ trace' = Append(trace, Cmd(c.cmd, c.dir, c.arg, ok, ~ok /\ c.accepted))
    /\ refs' = IF ok THEN c.refs ELSE refs
    /\ wt' = IF ok THEN c.wt ELSE wt

---------------------------------------------------------------------------
(* Detacher.Detach, detach.go:140-193 *)

\* the check as it would be if force were not consulted
BlockedDespiteForce(worktreePath, opts, q) == HasUncommittedChanges(worktreePath, q)

\* 159-160: the target worktree has uncommitted changes and force is not set
Blocked(worktreePath, opts, q) == HasUncommittedChanges(worktreePath, q) /\ ~opts.Force

\* the check as it would be if it were left out
ConflictIgnored(tmpBranch) == FALSE

\* 165: the temp branch already exists
Conflict(tmpBranch) == BranchExists(tmpBranch)

\* the option as it would be if it were not consulted
DryRunIgnored(opts) == FALSE

\* 169, 213, 238
DryRun(opts) == opts.DryRun

\* the checks of Detach as they would be with the temp branch tested before
\* the uncommitted changes
DetachChecksConflictFirst(branch, opts, cwd, q) ==
    LET tmpBranch == TempBranchName(branch)
        c1    == <<Verify(cwd, branch)>>
        find  == FindWorktreeForBranch(branch, cwd, q)
        c2    == c1 \o find.cmds
        c3    == Append(c2, Query("status --porcelain", find.wt.Path, "", q.status))
        c4    == Append(c3, Verify(cwd, tmpBranch))
    IN  IF ~BranchExists(branch)
        THEN Checked("idle", NilResult, ErrNotFound(branch), "", NilWorktree, c1)
        ELSE IF find.err # NilError
        THEN Checked("idle", NilResult, find.err, tmpBranch, NilWorktree, c2)
        ELSE IF find.wt.nil
        THEN Checked("idle",
                     [NilResult EXCEPT !.Success = TRUE, !.Message = MsgNotCheckedOut(branch)],
                     NilError, tmpBranch, NilWorktree, c2)
        ELSE IF Conflict(tmpBranch)
        THEN Checked("idle", NilResult, ErrTempBranchConflict(tmpBranch), tmpBranch, find.wt,
                     Append(c2, Verify(cwd, tmpBranch)))
        ELSE IF Blocked(find.wt.Path, opts, q)
        THEN Checked("idle", NilResult, ErrUncommitted(find.wt.Path), tmpBranch, find.wt, c4)
        ELSE IF DryRun(opts)
        THEN Checked("idle",
                     [Success |-> TRUE, Message |-> MsgDryRun,
                      WorktreePath |-> find.wt.Path, TempBranch |-> tmpBranch],
                     NilError, tmpBranch, find.wt, c4)
        ELSE Checked("d_CreateBranch", NilResult, NilError, tmpBranch, find.wt, c4)

\* 141-176: the checks, in the order of the code
DetachChecks(branch, opts, cwd, q) ==
    LET tmpBranch == TempBranchName(branch)
        c1    == <<Verify(cwd, branch)>>
        find  == FindWorktreeForBranch(branch, cwd, q)
        c2    == c1 \o find.cmds
        c3    == Append(c2, Query("status --porcelain", find.wt.Path, "", q.status))
        c4    == Append(c3, Verify(cwd, tmpBranch))
    IN  IF ~BranchExists(branch)
        THEN Checked("idle", NilResult, ErrNotFound(branch), "", NilWorktree, c1)
        ELSE IF find.err # NilError
        THEN Checked("idle", NilResult, find.err, tmpBranch, NilWorktree, c2)
        ELSE IF find.wt.nil
        THEN Checked("idle",
                     [NilResult EXCEPT !.Success = TRUE, !.Message = MsgNotCheckedOut(branch)],
                     NilError, tmpBranch, NilWorktree, c2)
        ELSE IF Blocked(find.wt.Path, opts, q)
        THEN Checked("idle", NilResult, ErrUncommitted(find.wt.Path), tmpBranch, find.wt, c3)
        ELSE IF Conflict(tmpBranch)
        THEN Checked("idle", NilResult, ErrTempBranchConflict(tmpBranch), tmpBranch, find.wt, c4)
        ELSE IF DryRun(opts)
        THEN Checked("idle",
                     [Success |-> TRUE, Message |-> MsgDryRun,
                      WorktreePath |-> find.wt.Path, TempBranch |-> tmpBranch],
                     NilError, tmpBranch, find.wt, c4)
        ELSE Checked("d_CreateBranch", NilResult, NilError, tmpBranch, find.wt, c4)

Detach(track) ==
    \E branch \in BranchArgs, opts \in Options, cwd \in Paths, q \in QueryOutcomes :
        /\ Begin("Detach", branch, opts, cwd, track, DetachChecks(branch, opts, cwd, q))
        /\ UNCHANGED aside

\* the creation as it would be if its error were dropped
DetachCreateBranchUnchecked ==
    /\ pc = "d_CreateBranch"
    /\ LET c == CreateBranch(loc.tmpBranch, loc.wt.Path)
       IN  \E ok \in Outcomes(c.accepted) : Run(c, ok)
    /\ pc' = "d_Checkout"
    /\ UNCHANGED <<suffix, call, loc, pre, ret, prev, budget>>
    /\ UNCHANGED aside

\* 178-180
DetachCreateBranch ==
    /\ pc = "d_CreateBranch"
    /\ LET c == CreateBranch(loc.tmpBranch, loc.wt.Path)
       IN  \E ok \in Outcomes(c.accepted) :
              /\ Run(c, ok)
              /\ IF ok
                 THEN pc' = "d_Checkout" /\ UNCHANGED ret
                 ELSE Return(NilResult, ErrCreate(loc.tmpBranch))
    /\ UNCHANGED <<suffix, call, loc, pre, prev, budget>>
    /\ UNCHANGED aside

\* the checkout as it would be if it were tried again after a failure
DetachCheckoutRetry ==
    /\ pc = "d_Checkout"
    /\ LET c == Checkout(loc.wt.Path, loc.tmpBranch)
       IN  \E ok \in Outcomes(c.accepted) :
              /\ Run(c, ok)
              /\ IF ok
                 THEN Return([Success |-> TRUE, Message |-> MsgDetached(call.branch),
                              WorktreePath |-> loc.wt.Path, TempBranch |-> loc.tmpBranch],
                             NilError)
                 ELSE pc' = "d_Checkout" /\ UNCHANGED ret
    /\ UNCHANGED <<suffix, call, loc, pre, prev, budget>>
    /\ UNCHANGED aside

\* 182, 187-192
DetachCheckout ==
    /\ pc = "d_Checkout"
    /\ LET c == Checkout(loc.wt.Path, loc.tmpBranch)
       IN  \E ok \in Outcomes(c.accepted) :
              /\ Run(c, ok)
              /\ IF ok
                 THEN Return([Success |-> TRUE, Message |-> MsgDetached(call.branch),
                              WorktreePath |-> loc.wt.Path, TempBranch |-> loc.tmpBranch],
                             NilError)
                 ELSE pc' = "d_Rollback" /\ UNCHANGED ret
    /\ UNCHANGED <<suffix, call, loc, pre, prev, budget>>
    /\ UNCHANGED aside

\* the failed checkout as it would be returned without the rollback
DetachNoRollback ==
    /\ pc = "d_Rollback"
    /\ Return(NilResult, ErrCheckout(loc.tmpBranch, loc.wt.Path))
    /\ UNCHANGED <<refs, wt, suffix, call, loc, trace, pre, prev, budget>>
    /\ UNCHANGED aside

\* 183-184: the delete's own error is dropped, the checkout's is returned
DetachRollback ==
    /\ pc = "d_Rollback"
    /\ LET c == DeleteBranch(loc.tmpBranch)
       IN  \E ok \in Outcomes(c.accepted) : Run(c, ok)
    /\ Return(NilResult, ErrCheckout(loc.tmpBranch, loc.wt.Path))
    /\ UNCHANGED <<suffix, call, loc, pre, prev, budget>>
    /\ UNCHANGED aside

---------------------------------------------------------------------------
(* Detacher.Revert, detach.go:196-261 *)

\* the check as it would be if it were left out
TempMissingIgnored(tmpBranch) == FALSE

\* 203: the temp branch does not exist
TempMissing(tmpBranch) == ~BranchExists(tmpBranch)

\* 197-245: the checks, in the order of the code
RevertChecks(branch, opts, cwd, q) ==
    LET tmpBranch == TempBranchName(branch)
        c1    == <<Verify(cwd, branch)>>
        c2    == Append(c1, Verify(cwd, tmpBranch))
        find  == FindWorktreeForBranch(tmpBranch, cwd, q)
        c3    == c2 \o find.cmds
        c4    == Append(c3, Query("status --porcelain", find.wt.Path, "", q.status))
    IN  IF ~BranchExists(branch)
        THEN Checked("idle", NilResult, ErrNotFound(branch), "", NilWorktree, c1)
        ELSE IF TempMissing(tmpBranch)
        THEN Checked("idle", NilResult, ErrTempBranchNotFound(tmpBranch),
                     tmpBranch, NilWorktree, c2)
        ELSE IF find.err # NilError
        THEN Checked("idle", NilResult, find.err, tmpBranch, NilWorktree, c3)
        ELSE IF find.wt.nil
        THEN IF DryRun(opts)
             THEN Checked("idle",
                          [NilResult EXCEPT
                             !.Success = TRUE, !.Message = MsgWouldDelete,
                             !.TempBranch = tmpBranch],
                          NilError, tmpBranch, NilWorktree, c3)
             ELSE Checked("r_DeleteUnattached", NilResult, NilError, tmpBranch, NilWorktree, c3)
        ELSE IF Blocked(find.wt.Path, opts, q)
        THEN Checked("idle", NilResult, ErrUncommitted(find.wt.Path), tmpBranch, find.wt, c4)
        ELSE IF DryRun(opts)
        THEN Checked("idle",
                     [Success |-> TRUE, Message |-> MsgDryRun,
                      WorktreePath |-> find.wt.Path, TempBranch |-> tmpBranch],
                     NilError, tmpBranch, find.wt, c4)
        ELSE Checked("r_Checkout", NilResult, NilError, tmpBranch, find.wt, c4)

Revert(track) ==
    \E branch \in BranchArgs, opts \in Options, cwd \in Paths, q \in QueryOutcomes :
        /\ Begin("Revert", branch, opts, cwd, track, RevertChecks(branch, opts, cwd, q))
        /\ UNCHANGED aside

\* the delete as it would be with the branch passed for the temp branch
RevertDeleteUnattachedBranch ==
    /\ pc = "r_DeleteUnattached"
    /\ LET c == DeleteBranch(call.branch)
       IN  \E ok \in Outcomes(c.accepted) :
              /\ Run(c, ok)
              /\ IF ok
                 THEN Return([NilResult EXCEPT
                                !.Success = TRUE, !.Message = MsgDeleted(loc.tmpBranch),
                                !.TempBranch = loc.tmpBranch],
                             NilError)
                 ELSE Return(NilResult, ErrDelete(loc.tmpBranch))
    /\ UNCHANGED <<suffix, call, loc, pre, prev, budget>>
    /\ UNCHANGED aside

\* 221-229
RevertDeleteUnattached ==
    /\ pc = "r_DeleteUnattached"
    /\ LET c == DeleteBranch(loc.tmpBranch)
       IN  \E ok \in Outcomes(c.accepted) :
              /\ Run(c, ok)
              /\ IF ok
                 THEN Return([NilResult EXCEPT
                                !.Success = TRUE, !.Message = MsgDeleted(loc.tmpBranch),
                                !.TempBranch = loc.tmpBranch],
                             NilError)
                 ELSE Return(NilResult, ErrDelete(loc.tmpBranch))
    /\ UNCHANGED <<suffix, call, loc, pre, prev, budget>>
    /\ UNCHANGED aside

\* the checkout as it would be if its error were not looked at
RevertCheckoutUnchecked ==
    /\ pc = "r_Checkout"
    /\ LET c == Checkout(loc.wt.Path, call.branch)
       IN  \E ok \in Outcomes(c.accepted) : Run(c, ok)
    /\ pc' = "r_DeleteBranch"
    /\ UNCHANGED <<suffix, call, loc, pre, ret, prev, budget>>
    /\ UNCHANGED aside

\* the checkout as it would be if it checked out the temp branch again
RevertCheckoutTemp ==
    /\ pc = "r_Checkout"
    /\ LET c == Checkout(loc.wt.Path, loc.tmpBranch)
       IN  \E ok \in Outcomes(c.accepted) :
              /\ Run(c, ok)
              /\ IF ok
                 THEN pc' = "r_DeleteBranch" /\ UNCHANGED ret
                 ELSE Return(NilResult, ErrCheckout(call.branch, loc.wt.Path))
    /\ UNCHANGED <<suffix, call, loc, pre, prev, budget>>
    /\ UNCHANGED aside

\* 247-249
RevertCheckout ==
    /\ pc = "r_Checkout"
    /\ LET c == Checkout(loc.wt.Path, call.branch)
       IN  \E ok \in Outcomes(c.accepted) :
              /\ Run(c, ok)
              /\ IF ok
                 THEN pc' = "r_DeleteBranch" /\ UNCHANGED ret
                 ELSE Return(NilResult, ErrCheckout(call.branch, loc.wt.Path))
    /\ UNCHANGED <<suffix, call, loc, pre, prev, budget>>
    /\ UNCHANGED aside

\* the delete as it would be if, like Detach, Revert undid its checkout when
\* the delete fails
RevertDeleteBranchRollback ==
    /\ pc = "r_DeleteBranch"
    /\ LET c == DeleteBranch(loc.tmpBranch)
       IN  \E ok \in Outcomes(c.accepted) :
              /\ trace' = Append(trace, Cmd(c.cmd, c.dir, c.arg, ok, ~ok /\ c.accepted))
              /\ refs' = IF ok THEN c.refs ELSE refs
              /\ wt' = IF ok THEN wt ELSE GitCheckout(refs, wt, loc.wt.Path, loc.tmpBranch)
              /\ IF ok
                 THEN Return([Success |-> TRUE, Message |-> MsgRestored(call.branch),
                              WorktreePath |-> loc.wt.Path, TempBranch |-> loc.tmpBranch],
                             NilError)
                 ELSE Return(NilResult, ErrDelete(loc.tmpBranch))
    /\ UNCHANGED <<suffix, call, loc, pre, prev, budget>>
    /\ UNCHANGED aside

\* 251-260
RevertDeleteBranch ==
    /\ pc = "r_DeleteBranch"
    /\ LET c == DeleteBranch(loc.tmpBranch)
       IN  \E ok \in Outcomes(c.accepted) :
              /\ Run(c, ok)
              /\ IF ok
                 THEN Return([Success |-> TRUE, Message |-> MsgRestored(call.branch),
                              WorktreePath |-> loc.wt.Path, TempBranch |-> loc.tmpBranch],
                             NilError)
                 ELSE Return(NilResult, ErrDelete(loc.tmpBranch))
    /\ UNCHANGED <<suffix, call, loc, pre, prev, budget>>
    /\ UNCHANGED aside

---------------------------------------------------------------------------
(* The user, working in the repository by hand between two engine calls.   *)
(* What the engine returned before no longer describes the repository, so *)
(* the record of the last call is dropped.                                 *)

UserStep ==
    /\ pc = "idle"
    /\ budget > 0
    /\ budget' = budget - 1
    /\ call' = NoCall
    /\ loc' = NoLoc
    /\ trace' = <<>>
    /\ pre' = NoPre
    /\ ret' = NoRet
    /\ prev' = NoPrev
    /\ UNCHANGED <<suffix, pc>>
    /\ UNCHANGED aside

\* git branch <name>, in the main worktree
UserBranch ==
    /\ UserStep
    /\ \E name \in UserNames :
          /\ GitBranchOk(refs, name)
          /\ refs' = GitBranch(refs, wt, "/r", name)
    /\ UNCHANGED wt

\* git -C <dir> checkout <name>
UserCheckout ==
    /\ UserStep
    /\ \E dir \in Paths, name \in DOMAIN refs :
          /\ name # wt[dir].Branch
          /\ GitCheckoutOk(refs, wt, dir, name)
          /\ wt' = GitCheckout(refs, wt, dir, name)
    /\ UNCHANGED refs

\* an edit left uncommitted in a worktree
UserEdit ==
    /\ UserStep
    /\ \E dir \in Paths :
          /\ ~wt[dir].Dirty
          /\ wt' = [wt EXCEPT ![dir].Dirty = TRUE]
    /\ UNCHANGED refs

---------------------------------------------------------------------------
(* The suffix changed between two calls on the same Detacher *)

SuffixStep ==
    /\ pc = "idle"
    /\ budget > 0
    /\ budget' = budget - 1
    /\ UNCHANGED <<refs, wt, pc, call, loc, trace, pre, ret, prev, config, cli, parse, peer>>

CallSetSuffix ==
    /\ SuffixStep
    /\ \E s \in SuffixArgs :
          /\ suffix' = SetSuffix(s)
          /\ last' = [op |-> "SetSuffix", arg |-> s, ok |-> TRUE, before |-> suffix]

\* the config query fails when the key is not set, and may fail anyway
CallLoadSuffixFromConfig ==
    /\ SuffixStep
    /\ \E ok \in {GitConfigGetOk(config), FALSE} :
          /\ suffix' = LoadSuffixFromConfig(ok)
          /\ last' = [op |-> "LoadSuffixFromConfig",
                      arg |-> IF config = <<>> THEN "" ELSE config[1],
                      ok |-> ok, before |-> suffix]

---------------------------------------------------------------------------
(* cli.go: the command line.  A line typed at the prompt is a sequence of   *)
(* characters; what the program prints is a sequence of messages (the      *)
(* check marks and warning signs it puts before them left out).             *)

\* the flags of the CLI struct, 13-21 (--init and --version, which do not
\* reach the engine, left out)
KnownFlags == {"--dry-run", "--revert", "--force", "--yes"}

\* the flags a user may type: those, and the --checkout of the README
Flags == KnownFlags \cup {"--checkout"}

\* the command-line parser refuses a flag the struct does not declare
ParseFlags(flags) ==
    [ok |-> flags \subseteq KnownFlags,
     DryRun |-> "--dry-run" \in flags, Revert |-> "--revert" \in flags,
     Force |-> "--force" \in flags, Yes |-> "--yes" \in flags]

ErrUnknownFlag(flags) == Sprintf("unknown flag %s", <<CHOOSE f \in flags \ KnownFlags : TRUE>>)

\* what is typed at the prompt
Inputs ==
    { <<"y", "\n">>, <<" ", "Y", "E", "S", " ", "\n">>, <<"n", "\n">>, <<"\n">>, <<"y">> }

ToLower(c) ==
    CASE c = "Y" -> "y" [] c = "E" -> "e" [] c = "S" -> "s" [] c = "N" -> "n" [] OTHER -> c

IsSpace(c) == c \in {" ", "\n", "\t"}

RECURSIVE TrimChars(_)
TrimChars(cs) ==
    IF cs # <<>> /\ IsSpace(Head(cs)) THEN TrimChars(Tail(cs))
    ELSE IF cs # <<>> /\ IsSpace(cs[Len(cs)]) THEN TrimChars(SubSeq(cs, 1, Len(cs) - 1))
    ELSE cs

\* reader.ReadString('\n'): the line with its newline, or an error at the end
\* of the input
ReadString(input) ==
    LET nl == {i \in 1..Len(input) : input[i] = "\n"}
    IN  IF nl = {} THEN [text |-> input, err |-> TRUE]
        ELSE [text |-> SubSeq(input, 1, CHOOSE i \in nl : \A j \in nl : i <= j), err |-> FALSE]

\* readYesNo as it would be if an empty answer meant yes
readYesNoDefaultYes(input) ==
    LET r == ReadString(input)
        t == TrimChars([i \in 1..Len(r.text) |-> ToLower(r.text[i])])
    IN  IF r.err THEN FALSE ELSE t = <<>> \/ t = <<"y">> \/ t = <<"y", "e", "s">>

\* readYesNo, 178-186
readYesNo(input) ==
    LET r == ReadString(input)
        t == TrimChars([i \in 1..Len(r.text) |-> ToLower(r.text[i])])
    IN  IF r.err THEN FALSE ELSE t = <<"y">> \/ t = <<"y", "e", "s">>

\* what the program prints (this module is ASCII: the check mark or warning
\* sign and the space that open some of the lines are left out)
OutNotCheckedOut(branch) ==
    Sprintf("Branch '%s' is not checked out in any other worktree.\n", <<branch>>)

OutFound(path) == Sprintf("Found worktree: %s\n", <<path>>)

OutFoundTemp(path) == Sprintf("Found worktree with temp branch: %s\n", <<path>>)

OutWarning(path) == Sprintf("Warning: Uncommitted changes found in worktree: %s\n", <<path>>)

OutWouldCreate(tmpBranch) == Sprintf("would create branch: %s\n", <<tmpBranch>>)

OutWouldCheckout(path) == Sprintf("would checkout in worktree: %s\n", <<path>>)

OutWouldRestore(path, branch) ==
    Sprintf("would checkout branch in worktree: %s -> %s\n", <<path, branch>>)

OutWouldDelete(tmpBranch) == Sprintf("would delete branch: %s\n", <<tmpBranch>>)

OutProceed == Sprintf("Proceed? [y/N] ", <<>>)

OutAborted == Sprintf("Aborted.\n", <<>>)

OutDetached(branch) == Sprintf("Branch detached: %s\n", <<branch>>)

OutDeleted(tmpBranch) == Sprintf("Deleted temp branch: %s\n", <<tmpBranch>>)

OutRestored(branch) == Sprintf("Branch restored: %s\n", <<branch>>)

\* what the program does before it calls the engine: go on to the call or not,
\* what it has printed, and the error it returns
Before(go, out, err) == [go |-> go, asked |-> FALSE, out |-> out, err |-> err]

\* the same when the prompt was printed and the answer read
Asked(go, out) == [go |-> go, asked |-> TRUE, out |-> out, err |-> NilError]

\* the warning printed for a worktree with changes, under --force
Warned(path, q) == IF HasUncommittedChanges(path, q) THEN <<OutWarning(path)>> ELSE <<>>

\* runDetach, 54-95, up to the call of Detach
runDetach(branch, opts, cwd, q, input) ==
    LET find == FindWorktreeForBranch(branch, cwd, q)
        path == find.wt.Path
        tmpBranch == TempBranchName(branch)
        seen == <<OutFound(path)>> \o Warned(path, q)
    IN  IF ~BranchExists(branch) THEN Before(FALSE, <<>>, ErrNotFound(branch))
        ELSE IF find.err # NilError THEN Before(FALSE, <<>>, find.err)
        ELSE IF find.wt.nil THEN Before(FALSE, <<OutNotCheckedOut(branch)>>, NilError)
        ELSE IF HasUncommittedChanges(path, q) /\ ~opts.Force
        THEN Before(FALSE, <<OutFound(path)>>, ErrUncommitted(path))
        ELSE IF opts.DryRun
        THEN Before(FALSE, seen \o <<OutWouldCreate(tmpBranch), OutWouldCheckout(path)>>, NilError)
        ELSE IF opts.Yes THEN Before(TRUE, seen, NilError)
        ELSE IF ~readYesNo(input) THEN Asked(FALSE, seen \o <<OutProceed, OutAborted>>)
        ELSE Asked(TRUE, seen \o <<OutProceed>>)

\* runRevert, 106-159, up to the call of Revert
runRevert(branch, opts, cwd, q, input) ==
    LET tmpBranch == TempBranchName(branch)
        find == FindWorktreeForBranch(tmpBranch, cwd, q)
        path == find.wt.Path
        seen == <<OutFoundTemp(path)>> \o Warned(path, q)
    IN  IF ~BranchExists(tmpBranch)
        THEN Before(FALSE, <<>>, ErrTempBranchNotFound(tmpBranch))
        ELSE IF find.err # NilError THEN Before(FALSE, <<>>, find.err)
        ELSE IF find.wt.nil
        THEN IF opts.DryRun
             THEN Before(FALSE, <<OutWouldDelete(tmpBranch)>>, NilError)
             ELSE Before(TRUE, <<>>, NilError)
        ELSE IF HasUncommittedChanges(path, q) /\ ~opts.Force
        THEN Before(FALSE, <<OutFoundTemp(path)>>, ErrUncommitted(path))
        ELSE IF opts.DryRun
        THEN Before(FALSE,
                    seen \o <<OutWouldRestore(path, branch), OutWouldDelete(tmpBranch)>>,
                    NilError)
        ELSE IF opts.Yes THEN Before(TRUE, seen, NilError)
        ELSE IF ~readYesNo(input) THEN Asked(FALSE, seen \o <<OutProceed, OutAborted>>)
        ELSE Asked(TRUE, seen \o <<OutProceed>>)

\* no preview before this run
NoPreview == [shown |-> FALSE, branch |-> "", cwd |-> "", flags |-> {}]

\* what the run that has just ended leaves to the next one to compare with: its
\* command line, if it was a dry run of a detach that printed what it would do
Preview ==
    IF /\ cli.started
       /\ cli.args.ok
       /\ cli.args.DryRun
       /\ \E i \in 1..Len(cli.out) : cli.out[i] = OutWouldCreate(TempBranchName(cli.branch))
    THEN [shown |-> TRUE, branch |-> cli.branch, cwd |-> cli.cwd, flags |-> cli.flags]
    ELSE NoPreview

\* the command lines a user may type
CommandLines ==
    [branch : BranchArgs,
     flags : {f \in SUBSET Flags : "--checkout" \in f => f \subseteq {"--checkout", "--yes"}},
     cwd : Paths]

\* the program is started in a worktree with one of the command lines: the
\* arguments are parsed and, when they are accepted, a new Detacher is made
\* (Run, 24-39); seen is what is remembered of the run before
CLIStartWith(lines, seen) ==
    /\ pc = "idle"
    /\ cli.started => cli.stage = "exited"
    /\ budget > 0
    /\ budget' = budget - 1
    /\ \E line \in lines :
          LET args == ParseFlags(line.flags)
              me == [started |-> TRUE, branch |-> line.branch, flags |-> line.flags,
                     cwd |-> line.cwd, args |-> args,
                     before |-> [refs |-> refs, wt |-> wt], preview |-> seen,
                     stage |-> "run", asked |-> FALSE, stdin |-> <<>>,
                     out |-> <<>>, err |-> NilError]
          IN  IF args.ok
              THEN /\ cli' = me
                   /\ suffix' = NewDetacher.suffix
              ELSE /\ cli' = [me EXCEPT !.stage = "exited", !.err = ErrUnknownFlag(line.flags)]
                   /\ UNCHANGED suffix
    /\ call' = NoCall
    /\ loc' = NoLoc
    /\ trace' = <<>>
    /\ pre' = NoPre
    /\ ret' = NoRet
    /\ prev' = NoPrev
    /\ last' = NoLast
    /\ UNCHANGED <<refs, wt, pc, config, parse, peer>>

\* any command line
CLIStart == CLIStartWith(CommandLines, NoPreview)

\* a dry run of a detach
CLIDryRun ==
    /\ ~cli.started
    /\ CLIStartWith({l \in CommandLines :
                        "--dry-run" \in l.flags /\ l.flags \subseteq {"--dry-run", "--force"}},
                    NoPreview)

\* after a dry run that printed what it would do: the same command line
\* without --dry-run and with --yes
CLIForReal ==
    /\ Preview.shown
    /\ CLIStartWith({[branch |-> cli.branch, cwd |-> cli.cwd,
                      flags |-> (cli.flags \ {"--dry-run"}) \cup {"--yes"}]},
                    Preview)

\* Run, 40: the new Detacher loads its suffix; the config query fails when the
\* key is not set, and may fail anyway
CLILoadSuffix ==
    /\ pc = "idle"
    /\ cli.started
    /\ cli.stage = "run"
    /\ \E ok \in {GitConfigGetOk(config), FALSE} :
          /\ suffix' = LoadSuffixFromConfig(ok)
          /\ last' = [op |-> "LoadSuffixFromConfig",
                      arg |-> IF config = <<>> THEN "" ELSE config[1],
                      ok |-> ok, before |-> suffix]
    /\ cli' = [cli EXCEPT !.stage = "checks"]
    /\ UNCHANGED <<refs, wt, pc, call, loc, trace, pre, ret, prev, budget, config, parse, peer>>

\* Run, 43-52, and runDetach or runRevert up to the call of the engine
CLIRun ==
    /\ pc = "idle"
    /\ cli.started
    /\ cli.stage = "checks"
    /\ \E q \in QueryOutcomes :
          LET opts == [DryRun |-> cli.args.DryRun, Force |-> cli.args.Force,
                       Yes |-> cli.args.Yes]
              run(input) == IF cli.args.Revert
                            THEN runRevert(cli.branch, opts, cli.cwd, q, input)
                            ELSE runDetach(cli.branch, opts, cli.cwd, q, input)
          IN  \* the standard input matters only when the prompt is read
              \E input \in IF run(<<>>).asked THEN Inputs ELSE {<<>>} :
                 cli' = [cli EXCEPT !.stage = IF run(input).go THEN "call" ELSE "exited",
                                    !.asked = run(input).asked,
                                    !.stdin = IF run(input).asked THEN input ELSE <<>>,
                                    !.out = run(input).out, !.err = run(input).err]
    /\ UNCHANGED <<refs, wt, suffix, pc, call, loc, trace, pre, ret, prev, budget,
                   config, last, parse, peer>>

\* runDetach, 97, and runRevert, 124 and 161: the call of the engine, which
\* reads of the options DryRun and Force
CLICall ==
    /\ pc = "idle"
    /\ cli.started
    /\ cli.stage = "call"
    /\ \E q \in QueryOutcomes :
          LET opts == [DryRun |-> cli.args.DryRun, Force |-> cli.args.Force]
          IN  IF cli.args.Revert
              THEN Begin("Revert", cli.branch, opts, cli.cwd, FALSE,
                         RevertChecks(cli.branch, opts, cli.cwd, q))
              ELSE Begin("Detach", cli.branch, opts, cli.cwd, FALSE,
                         DetachChecks(cli.branch, opts, cli.cwd, q))
    /\ cli' = [cli EXCEPT !.stage = "engine"]
    /\ UNCHANGED <<config, last, parse, peer>>

\* runDetach, 97-103, and runRevert, 124-128 and 161-166: the engine has
\* returned, the program prints what was done or returns the error
CLIExit ==
    /\ pc = "idle"
    /\ cli.started
    /\ cli.stage = "engine"
    /\ ret.done
    /\ cli' = [cli EXCEPT
                 !.stage = "exited",
                 !.err = ret.err,
                 !.out = IF ret.err # NilError THEN @
                         ELSE IF call.op = "Detach" THEN Append(@, OutDetached(call.branch))
                         ELSE IF ret.result.WorktreePath = ""
                         THEN Append(@, OutDeleted(ret.result.TempBranch))
                         ELSE Append(@, OutRestored(call.branch))]
    /\ UNCHANGED <<refs, wt, suffix, pc, call, loc, trace, pre, ret, prev, budget,
                   config, last, parse, peer>>

---------------------------------------------------------------------------

\* the changing commands of a running call
Steps ==
    \/ DetachCreateBranch
    \/ DetachCheckout
    \/ DetachRollback
    \/ RevertDeleteUnattached
    \/ RevertCheckout
    \/ RevertDeleteBranch

\* the user at work
User ==
    \/ UserBranch
    \/ UserCheckout
    \/ UserEdit

\* runs in which each call is judged on its own, between changes by the user
Next == Detach(FALSE) \/ Revert(FALSE) \/ Steps \/ User

Spec == Init /\ [][Next]_vars

\* runs of two calls in a row, the second remembering the first
NextSeq == Detach(TRUE) \/ Revert(TRUE) \/ Steps

SpecSeq == InitSeq /\ [][NextSeq]_vars

\* the same runs as Spec when every command the engine issues returns: a call
\* that has a command to issue issues it
SpecLive == Init /\ [][Next]_vars /\ WF_vars(Steps)

\* a Detacher whose suffix is set or loaded before and between its calls
InitSuffix ==
    \E w1 \in {"", "f"}, cfg \in ConfigValues :
        /\ Fixture(TRUE, FALSE, w1, FALSE)
        /\ config = cfg
        /\ parse = NoParse

\* the calls of such a Detacher: from the main worktree, their queries answered
DetachFromMain ==
    \E branch \in BranchArgs, opts \in Options :
        /\ Begin("Detach", branch, opts, "/r", TRUE, DetachChecks(branch, opts, "/r", AllOk))
        /\ UNCHANGED aside

RevertFromMain ==
    \E branch \in BranchArgs, opts \in Options :
        /\ Begin("Revert", branch, opts, "/r", TRUE, RevertChecks(branch, opts, "/r", AllOk))
        /\ UNCHANGED aside

NextSuffix ==
    \/ CallSetSuffix
    \/ CallLoadSuffixFromConfig
    \/ DetachFromMain
    \/ RevertFromMain
    \/ Steps

SpecSuffix == InitSuffix /\ [][NextSuffix]_vars

\* the program run from the command line, once or twice
InitCLI ==
    \E w1 \in {"", "f"}, dirty \in BOOLEAN, cfg \in {<<>>, <<CustomSuffix>>} :
        /\ Fixture(TRUE, FALSE, w1, dirty)
        /\ config = cfg
        /\ parse = NoParse

NextCLI ==
    \/ CLIStart
    \/ CLILoadSuffix
    \/ CLIRun
    \/ CLICall
    \/ CLIExit
    \/ Steps

SpecCLI == InitCLI /\ [][NextCLI]_vars

\* a dry run of a detach and, on the repository it left, the run for real
InitPreview ==
    \E hasTemp \in BOOLEAN, w1 \in {"", "f"}, dirty \in BOOLEAN :
        /\ Fixture(TRUE, hasTemp, w1, dirty)
        /\ config = <<>>
        /\ parse = NoParse

NextPreview ==
    \/ CLIDryRun
    \/ CLIForReal
    \/ CLILoadSuffix
    \/ CLIRun
    \/ CLICall
    \/ CLIExit
    \/ DetachCreateBranch
    \/ DetachCheckout
    \/ DetachRollback

SpecPreview == InitPreview /\ [][NextPreview]_vars

---------------------------------------------------------------------------
(* ParseWorktreeList on its own (worktree.go): a text is handed to it once *)

\* the longest text
MaxLines == 5

\* the lines a text is made of: the lines that open a block, the lines of a
\* block that the parser reads or skips, and the blank line
TextLines ==
    {<<"worktree ", p>> : p \in {"/r", "/w1"}}
        \cup {<<"branch refs/heads/", b>> : b \in BranchArgs}
        \cup {<<"HEAD ", "c1">>, <<"detached">>, <<"bare">>, <<"locked ", LongText>>, <<>>}

Texts == UNION {[1..n -> TextLines] : n \in 0..MaxLines}

InitParse ==
    \E text \in Texts :
        /\ Fixture(TRUE, FALSE, "f", FALSE)
        /\ config = <<>>
        /\ parse = [NoParse EXCEPT !.input = text]

\* the call ParseWorktreeList(output)
CallParseWorktreeList ==
    /\ ~parse.done
    /\ parse' = [parse EXCEPT !.output = ParseWorktreeList(parse.input), !.done = TRUE]
    /\ UNCHANGED <<refs, wt, suffix, pc, call, loc, trace, pre, ret, prev, budget,
                   config, last, cli, peer>>

NextParse == CallParseWorktreeList

SpecParse == InitParse /\ [][NextParse]_vars

---------------------------------------------------------------------------
(* FindWorktreeByBranch on its own (worktree.go): a listing is parsed, then *)
(* looked up once                                                           *)

\* the longest listing
MaxRecords == 3

\* a block as `git worktree list --porcelain` prints it
Blocks ==
    {<< <<"worktree ", p>>, <<"HEAD ", "c1">>, l, <<>> >> :
        p \in Paths, l \in {<<"branch refs/heads/", b>> : b \in BranchArgs} \cup {<<"detached">>}}

RECURSIVE ListingsOf(_)
ListingsOf(n) ==
    IF n = 0 THEN {<<>>} ELSE {b \o t : b \in Blocks, t \in ListingsOf(n - 1)}

Listings == UNION {ListingsOf(n) : n \in 0..MaxRecords}

InitFind ==
    \E text \in Listings :
        /\ Fixture(TRUE, FALSE, "f", FALSE)
        /\ config = <<>>
        /\ parse = [NoParse EXCEPT !.input = text]

\* the call FindWorktreeByBranch(worktrees, branch, excludePath)
CallFindWorktreeByBranch ==
    \E branch \in BranchArgs \cup {""}, excludePath \in Paths \cup {""} :
        /\ parse.done
        /\ ~parse.found.called
        /\ parse' = [parse EXCEPT !.found =
                        [called |-> TRUE, branch |-> branch, excludePath |-> excludePath,
                         result |-> FindWorktreeByBranch(parse.output, branch, excludePath)]]
        /\ UNCHANGED <<refs, wt, suffix, pc, call, loc, trace, pre, ret, prev, budget,
                       config, last, cli, peer>>

NextFind == CallParseWorktreeList \/ CallFindWorktreeByBranch

SpecFind == InitFind /\ [][NextFind]_vars

\* two processes, each with its own Detacher, run Detach once in the same
\* repository: one of them runs, the other waits, and they may take turns
\* between any two git commands that change the repository
InitRace ==
    \E hasTemp \in BOOLEAN, w1 \in {"", "f"}, dirty \in BOOLEAN :
        /\ Fixture(TRUE, hasTemp, w1, dirty)
        /\ config = <<>>
        /\ parse = NoParse

\* the process that runs
Running ==
    [suffix |-> suffix, pc |-> pc, call |-> call, loc |-> loc, trace |-> trace,
     pre |-> pre, ret |-> ret]

\* the process that runs calls Detach, as the program does once per run
DetachRace ==
    \E branch \in BranchArgs, opts \in Options, cwd \in Paths, q \in QueryOutcomes :
        /\ Begin("Detach", branch, opts, cwd, FALSE, DetachChecks(branch, opts, cwd, q))
        /\ peer' = [peer EXCEPT !.raced = /\ pc' = "d_CreateBranch"
                                          /\ peer.proc.pc = "d_CreateBranch"
                                          /\ peer.proc.call.branch = branch]
        /\ UNCHANGED <<config, last, cli, parse>>

\* the process that runs is suspended and the one that waits goes on
Switch ==
    /\ peer' = [peer EXCEPT !.proc = Running]
    /\ suffix' = peer.proc.suffix
    /\ pc' = peer.proc.pc
    /\ call' = peer.proc.call
    /\ loc' = peer.proc.loc
    /\ trace' = peer.proc.trace
    /\ pre' = peer.proc.pre
    /\ ret' = peer.proc.ret
    /\ UNCHANGED <<refs, wt, prev, budget, config, last, cli, parse>>

NextRace ==
    \/ DetachRace
    \/ Switch
    \/ DetachCreateBranch
    \/ DetachCheckout
    \/ DetachRollback

SpecRace == InitRace /\ [][NextRace]_vars

---------------------------------------------------------------------------
(* The vocabulary of the properties *)

\* a call has returned and nothing has happened since
Done == pc = "idle" /\ ret.done

\* the temp branch of the running or returned call
Tmp == TempBranchName(call.branch)

\* the commands that change the repository
Mutating(c) == c.cmd \in {"branch", "branch -D", "checkout"}

Mutations(cmds) == SelectSeq(cmds, Mutating)

\* no command of the trace failed although git would have accepted it
NoFailures(cmds) == \A i \in 1..Len(cmds) : ~cmds[i].fault

\* the worktrees other than cwd that have b checked out
Holders(w, b, cwd) == {p \in Paths : p # cwd /\ w[p].Branch = b}

\* the call has left the refs and the worktrees as it found them
Same == refs = pre.refs /\ wt = pre.wt

---------------------------------------------------------------------------
(* Properties of one call *)

\* C2: after a successful Detach(branch) without dry-run that found a target
\* worktree W, the ref branch+suffix exists and points at the commit that was
\* W's HEAD, W has branch+suffix checked out and no longer branch, which no
\* worktree holds any more, and the result is Success with W's path and
\* branch+suffix.
C2_DetachPostcondition ==
    (/\ Done
     /\ call.op = "Detach"
     /\ ~call.opts.DryRun
     /\ ret.err = NilError
     /\ ret.result.WorktreePath # "")
    => LET W == ret.result.WorktreePath
       IN  /\ W \in Holders(pre.wt, call.branch, call.cwd)
           /\ Tmp \in DOMAIN refs
           /\ refs[Tmp] = pre.wt[W].Head
           /\ wt[W].Branch = Tmp
           /\ wt[W].Branch # call.branch
           /\ \A p \in Paths \ {W} : GitCheckoutOk(refs, wt, p, call.branch)
           /\ ret.result = [Success |-> TRUE, Message |-> MsgDetached(call.branch),
                            WorktreePath |-> W, TempBranch |-> Tmp]

C2_Witness ==
    /\ Done
    /\ call.op = "Detach"
    /\ ~call.opts.DryRun
    /\ ret.err = NilError
    /\ ret.result.WorktreePath = "/w1"
    /\ pre.wt["/w1"].Head # pre.wt[call.cwd].Head
    /\ wt["/w1"].Branch = "f" \o DefaultSuffix
    /\ refs["f" \o DefaultSuffix] = pre.wt["/w1"].Head

\* C4: when branch exists, a worktree other than the current one has it checked
\* out and is clean (or force is set), and branch+suffix already exists, Detach
\* returns the "already exists" error and changes nothing: no changing command
\* is issued, the temp ref keeps its commit and every worktree its branch, with
\* dry-run set or not.
C4_TempBranchConflict ==
    (/\ Done
     /\ call.op = "Detach"
     /\ call.branch \in DOMAIN pre.refs
     /\ \E W \in Holders(pre.wt, call.branch, call.cwd) :
            ~pre.wt[W].Dirty \/ call.opts.Force
     /\ Tmp \in DOMAIN pre.refs
     /\ NoFailures(trace))
    => /\ ret.err = ErrTempBranchConflict(Tmp)
       /\ ret.result = NilResult
       /\ Mutations(trace) = <<>>
       /\ Same
       /\ refs[Tmp] = pre.refs[Tmp]

C4_Witness ==
    /\ Done
    /\ call.op = "Detach"
    /\ call.opts.DryRun
    /\ call.opts.Force
    /\ Holders(pre.wt, call.branch, call.cwd) = {"/w1"}
    /\ pre.wt["/w1"].Dirty
    /\ Tmp \in DOMAIN pre.refs
    /\ ret.err = ErrTempBranchConflict(Tmp)
    /\ Same

\* C6: when branch exists and no worktree other than the current one has it
\* checked out, Detach returns Success with the "not checked out" message and no
\* error, issues no changing command, and leaves the refs and every worktree's
\* branch as they were.
C6_NotCheckedOut ==
    (/\ Done
     /\ call.op = "Detach"
     /\ call.branch \in DOMAIN pre.refs
     /\ Holders(pre.wt, call.branch, call.cwd) = {}
     /\ NoFailures(trace))
    => /\ ret.err = NilError
       /\ ret.result = [NilResult EXCEPT !.Success = TRUE,
                                         !.Message = MsgNotCheckedOut(call.branch)]
       /\ Mutations(trace) = <<>>
       /\ Same

C6_Witness ==
    /\ Done
    /\ call.op = "Detach"
    /\ pre.wt[call.cwd].Branch = call.branch
    /\ ret.result.Success
    /\ ret.result.Message = MsgNotCheckedOut(call.branch)
    /\ Same

\* C7: with dry-run set, Detach and Revert issue no changing command and leave
\* the refs and the worktrees as they were, on every path.  A dry-run Detach that
\* passes its checks returns the message "dry-run" with the target worktree's
\* path and the temp branch name; a dry-run Revert that passes its checks
\* returns the same for the worktree it would check out, or the pending
\* deletion of the temp branch when it found no worktree holding it.
C7_DryRun ==
    (call.op # "none" /\ call.opts.DryRun)
    => /\ Done
       /\ Mutations(trace) = <<>>
       /\ Same
       /\ (/\ call.op = "Detach"
           /\ call.branch \in DOMAIN pre.refs
           /\ Tmp \notin DOMAIN pre.refs
           /\ NoFailures(trace))
          => \A W \in Holders(pre.wt, call.branch, call.cwd) :
                (~pre.wt[W].Dirty \/ call.opts.Force)
                => /\ ret.err = NilError
                   /\ ret.result = [Success |-> TRUE, Message |-> MsgDryRun,
                                    WorktreePath |-> W, TempBranch |-> Tmp]
       /\ (/\ call.op = "Revert"
           /\ call.branch \in DOMAIN pre.refs
           /\ Tmp \in DOMAIN pre.refs
           /\ NoFailures(trace))
          => /\ \A W \in Holders(pre.wt, Tmp, call.cwd) :
                   (~pre.wt[W].Dirty \/ call.opts.Force)
                   => /\ ret.err = NilError
                      /\ ret.result = [Success |-> TRUE, Message |-> MsgDryRun,
                                       WorktreePath |-> W, TempBranch |-> Tmp]
             /\ Holders(pre.wt, Tmp, call.cwd) = {}
                => /\ ret.err = NilError
                   /\ ret.result = [NilResult EXCEPT !.Success = TRUE,
                                                     !.Message = MsgWouldDelete,
                                                     !.TempBranch = Tmp]

C7_Witness ==
    /\ Done
    /\ call.op = "Detach"
    /\ call.opts.DryRun
    /\ ret.result = [Success |-> TRUE, Message |-> MsgDryRun,
                     WorktreePath |-> "/w1", TempBranch |-> "f" \o DefaultSuffix]
    /\ "f" \o DefaultSuffix \notin DOMAIN refs
    /\ wt["/w1"].Branch = "f"

\* the running or returned Detach created the temp branch and then failed to
\* check it out: the position of the failed checkout in the trace, 0 if none
FailedCheckout ==
    LET at == {i \in 2..Len(trace) :
                  /\ trace[i - 1].cmd = "branch" /\ trace[i - 1].ok
                  /\ trace[i].cmd = "checkout" /\ ~trace[i].ok}
    IN  IF call.op = "Detach" /\ at # {} THEN CHOOSE i \in at : TRUE ELSE 0

\* C8: when Detach has created the temp branch and the checkout of it in the
\* target worktree fails, Detach issues a delete of the temp branch before it
\* returns, and returns the checkout's error; when that delete succeeds, the
\* refs and the worktrees are as before the call: no temp ref, the target
\* worktree still on the branch.
C8_Rollback ==
    FailedCheckout # 0
    => \/ pc = "d_Rollback" /\ ~ret.done /\ Len(trace) = FailedCheckout
       \/ /\ Done
          /\ Len(trace) = FailedCheckout + 1
          /\ trace[Len(trace)].cmd = "branch -D"
          /\ trace[Len(trace)].arg = Tmp
          /\ ret.err = ErrCheckout(Tmp, loc.wt.Path)
          /\ ret.result = NilResult
          /\ trace[Len(trace)].ok
             => /\ Same
                /\ Tmp \notin DOMAIN refs
                /\ wt[loc.wt.Path].Branch = call.branch

C8_Witness ==
    /\ FailedCheckout # 0
    /\ Done
    /\ trace[Len(trace)].cmd = "branch -D"
    /\ trace[Len(trace)].ok
    /\ ret.err = ErrCheckout(Tmp, "/w1")
    /\ Same

\* C10: when the temp branch is checked out in the current worktree, Revert
\* (without dry-run, no command failing, the worktree clean or force set)
\* finds that worktree, checks the branch out in it and deletes the temp
\* branch.
C10_RevertFromHoldingWorktree ==
    (/\ Done
     /\ call.op = "Revert"
     /\ ~call.opts.DryRun
     /\ call.branch \in DOMAIN pre.refs
     /\ Tmp \in DOMAIN pre.refs
     /\ pre.wt[call.cwd].Branch = Tmp
     /\ GitCheckoutOk(pre.refs, pre.wt, call.cwd, call.branch)
     /\ ~pre.wt[call.cwd].Dirty \/ call.opts.Force
     /\ NoFailures(trace))
    => /\ ret.err = NilError
       /\ wt[call.cwd].Branch = call.branch
       /\ Tmp \notin DOMAIN refs

\* C11: when the branch and branch+suffix both exist and no worktree holds
\* branch+suffix, a Revert without dry-run (no command failing) deletes the ref
\* branch+suffix and nothing else and returns success: every other ref is
\* there with its commit and no worktree changes.
C11_RevertUnattached ==
    (/\ Done
     /\ call.op = "Revert"
     /\ ~call.opts.DryRun
     /\ call.branch \in DOMAIN pre.refs
     /\ Tmp \in DOMAIN pre.refs
     /\ ~CheckedOutElsewhere(pre.wt, Tmp, "")
     /\ NoFailures(trace))
    => /\ ret.err = NilError
       /\ ret.result = [NilResult EXCEPT !.Success = TRUE, !.Message = MsgDeleted(Tmp),
                                         !.TempBranch = Tmp]
       /\ DOMAIN refs = DOMAIN pre.refs \ {Tmp}
       /\ \A n \in DOMAIN refs : refs[n] = pre.refs[n]
       /\ call.branch \in DOMAIN refs
       /\ wt = pre.wt
       /\ Mutations(trace) = <<Cmd("branch -D", call.cwd, Tmp, TRUE, FALSE)>>

C11_Witness ==
    /\ Done
    /\ call.op = "Revert"
    /\ ~call.opts.DryRun
    /\ call.branch = "f"
    /\ "f" \o DefaultSuffix \in DOMAIN pre.refs
    /\ ~CheckedOutElsewhere(pre.wt, "f" \o DefaultSuffix, "")
    /\ ret.result.Message = MsgDeleted("f" \o DefaultSuffix)
    /\ DOMAIN refs = DOMAIN pre.refs \ {"f" \o DefaultSuffix}
    /\ wt = pre.wt

\* C12: Detach and Revert of a branch that does not exist as a ref return the
\* "does not exist" error for the branch and change nothing, whatever else
\* holds, also when branch+suffix exists.
C12_BranchNotFound ==
    (/\ Done
     /\ call.op \in {"Detach", "Revert"}
     /\ call.branch \notin DOMAIN pre.refs)
    => /\ ret.err = ErrNotFound(call.branch)
       /\ ret.result = NilResult
       /\ Mutations(trace) = <<>>
       /\ Same

C12_Witness ==
    /\ Done
    /\ call.op = "Revert"
    /\ call.branch \notin DOMAIN pre.refs
    /\ Tmp \in DOMAIN pre.refs
    /\ ret.err = ErrNotFound(call.branch)
    /\ Same

\* C13: Revert of a branch that exists while branch+suffix does not returns
\* the "does not exist" error for the temp branch and changes nothing: no
\* changing command, so no checkout in any worktree.
C13_TempBranchNotFound ==
    (/\ Done
     /\ call.op = "Revert"
     /\ call.branch \in DOMAIN pre.refs
     /\ Tmp \notin DOMAIN pre.refs)
    => /\ ret.err = ErrTempBranchNotFound(Tmp)
       /\ ret.result = NilResult
       /\ Mutations(trace) = <<>>
       /\ Same

C13_Witness ==
    /\ Done
    /\ call.op = "Revert"
    /\ call.branch \in DOMAIN pre.refs
    /\ Tmp \notin DOMAIN pre.refs
    /\ \E p \in Paths : pre.wt[p].Branch = call.branch
    /\ ret.err = ErrTempBranchNotFound(Tmp)
    /\ Same

\* the position in the trace of a failed creation of the temp branch by the
\* running or returned Detach, 0 if none
FailedCreate ==
    LET at == {i \in 1..Len(trace) : trace[i].cmd = "branch" /\ ~trace[i].ok}
    IN  IF call.op = "Detach" /\ at # {} THEN CHOOSE i \in at : TRUE ELSE 0

\* C14: when the command creating the temp branch fails, Detach returns the
\* creation error at once: no checkout and no delete follows, the refs and the
\* worktrees are as before, the target worktree on the branch.
C14_CreateFails ==
    FailedCreate # 0
    => /\ Done
       /\ Len(trace) = FailedCreate
       /\ Mutations(trace) = <<trace[FailedCreate]>>
       /\ ret.err = ErrCreate(Tmp)
       /\ ret.result = NilResult
       /\ Same
       /\ Tmp \notin DOMAIN refs
       /\ wt[loc.wt.Path].Branch = call.branch

C14_Witness ==
    /\ FailedCreate # 0
    /\ Done
    /\ ret.err = ErrCreate("f" \o DefaultSuffix)
    /\ wt["/w1"].Branch = "f"
    /\ Same

\* the running or returned call asked for the status of its target worktree
\* and the query failed
StatusUnknown ==
    \E i \in 1..Len(trace) : trace[i].cmd = "status --porcelain" /\ ~trace[i].ok

\* C15: HasUncommittedChanges reports true when the status query fails, and
\* false only when it succeeds with empty output; so Detach and Revert without
\* force return the uncommitted-changes error and change nothing when the
\* status of the target worktree cannot be determined.
C15_FailSafe ==
    /\ \A p \in Paths, q \in QueryOutcomes :
          /\ ~q.status => HasUncommittedChanges(p, q)
          /\ ~HasUncommittedChanges(p, q) => (q.status /\ ~wt[p].Dirty)
    /\ (Done /\ call.op \in {"Detach", "Revert"} /\ ~call.opts.Force /\ StatusUnknown)
       => /\ ret.err = ErrUncommitted(loc.wt.Path)
          /\ ret.result = NilResult
          /\ Mutations(trace) = <<>>
          /\ Same

C15_Witness ==
    /\ Done
    /\ call.op = "Revert"
    /\ ~call.opts.Force
    /\ StatusUnknown
    /\ ~pre.wt[loc.wt.Path].Dirty
    /\ ret.err = ErrUncommitted(loc.wt.Path)
    /\ Same

\* the number of uncommitted files up to which the message names each of them
MaxListedFiles == 10

\* the files `git status --porcelain` reports for a worktree
StatusFiles(w, dir) ==
    LET lines == GitStatus(w, dir)
    IN  [i \in 1..Len(lines) |-> lines[i][2]]

\* what a message carries: the values put into its format
Carries(msg, x) == \E i \in 1..Len(msg.args) : msg.args[i] = x

\* C16: the uncommitted-changes error of Detach and Revert carries the path of
\* the worktree and its uncommitted files: each of them when they are at most
\* 10, and "N files or more" for their number N and none of them when they are
\* more; it has the hint "Use --force to override".
C16_UncommittedErrorListsFiles ==
    (/\ Done
     /\ call.op \in {"Detach", "Revert"}
     /\ ~call.opts.Force
     /\ ~StatusUnknown
     /\ ret.err.fmt = ErrUncommitted("").fmt)
    => LET files == StatusFiles(pre.wt, loc.wt.Path)
       IN  /\ Carries(ret.err, loc.wt.Path)
           /\ Len(files) <= MaxListedFiles
              => \A i \in 1..Len(files) : Carries(ret.err, files[i])
           /\ Len(files) > MaxListedFiles
              => /\ Carries(ret.err, ToString(Len(files)) \o " files or more")
                 /\ \A i \in 1..Len(files) : ~Carries(ret.err, files[i])

---------------------------------------------------------------------------
(* Properties of two calls in a row: `prev` is the first, on the same      *)
(* branch, from the same worktree and with the same suffix.                *)

\* the first call was a Detach without dry-run that succeeded on a target
\* worktree, no command of it failing
PrevDetached ==
    /\ prev.call.op = "Detach"
    /\ ~prev.call.opts.DryRun
    /\ prev.ret.done
    /\ prev.ret.err = NilError
    /\ prev.ret.result.WorktreePath # ""
    /\ NoFailures(prev.trace)

\* C1: from a state where the branch is checked out in a clean worktree W other
\* than the current one and branch+suffix does not exist, a successful Detach
\* followed by Revert of the same branch from the same worktree, no command
\* failing, leaves W on the branch again and no branch+suffix ref.
C1_RoundTrip ==
    (/\ PrevDetached
     /\ Done
     /\ call.op = "Revert"
     /\ ~call.opts.DryRun
     /\ ~pre.wt[prev.ret.result.WorktreePath].Dirty
     /\ NoFailures(trace))
    => LET W == prev.ret.result.WorktreePath
       IN  /\ ret.err = NilError
           /\ ret.result = [Success |-> TRUE, Message |-> MsgRestored(call.branch),
                            WorktreePath |-> W, TempBranch |-> Tmp]
           /\ wt[W].Branch = call.branch
           /\ wt[W].Head = refs[call.branch]
           /\ Tmp \notin DOMAIN refs

C1_Witness ==
    /\ PrevDetached
    /\ prev.ret.result.WorktreePath = "/w1"
    /\ Done
    /\ call.op = "Revert"
    /\ ~call.opts.DryRun
    /\ pre.wt["/w1"].Branch = "f" \o DefaultSuffix
    /\ ret.err = NilError
    /\ wt["/w1"].Branch = "f"
    /\ "f" \o DefaultSuffix \notin DOMAIN refs

\* C3 as the specification states it: the second of two Detach calls in a row
\* fails with the "already exists" error.
C3_SecondDetachConflicts ==
    (/\ PrevDetached
     /\ Done
     /\ call.op = "Detach"
     /\ NoFailures(trace))
    => ret.err = ErrTempBranchConflict(Tmp)

\* C3: the second of two Detach calls in a row, the first having succeeded,
\* finds the branch in no other worktree and returns Success with the "not
\* checked out" message; it issues no changing command, so the one temp branch
\* of the first call stays the only one.
C3_SecondDetachFindsNothing ==
    (/\ PrevDetached
     /\ Done
     /\ call.op = "Detach"
     /\ NoFailures(trace))
    => /\ ret.err = NilError
       /\ ret.result = [NilResult EXCEPT !.Success = TRUE,
                                         !.Message = MsgNotCheckedOut(call.branch)]
       /\ Mutations(trace) = <<>>
       /\ Same
       /\ Tmp \in DOMAIN refs
       /\ wt[prev.ret.result.WorktreePath].Branch = Tmp

C3_Witness ==
    /\ PrevDetached
    /\ prev.ret.result.WorktreePath = "/w1"
    /\ Done
    /\ call.op = "Detach"
    /\ ~call.opts.DryRun
    /\ ret.result.Success
    /\ ret.result.Message = MsgNotCheckedOut("f")
    /\ wt["/w1"].Branch = "f" \o DefaultSuffix

\* a Detach whose target worktree has uncommitted changes, force not set,
\* fails with the "uncommitted changes" error and changes nothing
UncommittedBlocks ==
    (/\ Done
     /\ call.op = "Detach"
     /\ ~call.opts.Force
     /\ call.branch \in DOMAIN pre.refs
     /\ NoFailures(trace))
    => \A W \in Holders(pre.wt, call.branch, call.cwd) :
          pre.wt[W].Dirty
          => /\ ret.err = ErrUncommitted(W)
             /\ ret.result = NilResult
             /\ Mutations(trace) = <<>>
             /\ Same
             /\ wt[W].Branch = call.branch

\* the first call was a Detach without force that the uncommitted changes of
\* its target worktree blocked, and the running one repeats it with force
ForcedRetry(W) ==
    /\ prev.call.op = "Detach"
    /\ ~prev.call.opts.Force
    /\ prev.ret.done
    /\ prev.ret.err = ErrUncommitted(W)
    /\ NoFailures(prev.trace)
    /\ Done
    /\ call.op = "Detach"
    /\ call.opts.Force
    /\ call.opts.DryRun = prev.call.opts.DryRun
    /\ ~call.opts.DryRun
    /\ NoFailures(trace)

\* the repeated Detach succeeds and leaves the worktree on branch+suffix
RetrySucceeds(W) ==
    /\ ret.err = NilError
    /\ ret.result = [Success |-> TRUE, Message |-> MsgDetached(call.branch),
                     WorktreePath |-> W, TempBranch |-> Tmp]
    /\ wt[W].Branch = Tmp
    /\ wt[W].Dirty

\* C5 as the specification states it: the blocked Detach changes nothing, and
\* repeated with force on the unchanged state it succeeds.
C5_ForcedRetrySucceeds ==
    /\ UncommittedBlocks
    /\ \A W \in Paths : ForcedRetry(W) => RetrySucceeds(W)

\* C5: a Detach whose target worktree has uncommitted changes, force not set,
\* fails with the "uncommitted changes" error and changes nothing; repeated
\* with force on the unchanged state it succeeds and leaves the worktree on
\* branch+suffix, provided branch+suffix does not exist already.
C5_ForcedRetrySucceedsWithoutTemp ==
    /\ UncommittedBlocks
    /\ \A W \in Paths : (ForcedRetry(W) /\ Tmp \notin DOMAIN pre.refs) => RetrySucceeds(W)

C5_Witness ==
    /\ ForcedRetry("/w1")
    /\ Tmp \notin DOMAIN pre.refs
    /\ RetrySucceeds("/w1")
    /\ wt["/w1"].Branch = "f" \o DefaultSuffix

\* the trace is that of a Revert whose checkout succeeded and whose delete of
\* the temp branch then failed
DeleteFailedAfterCheckout(op, cmds) ==
    /\ op = "Revert"
    /\ Len(cmds) >= 2
    /\ cmds[Len(cmds) - 1].cmd = "checkout"
    /\ cmds[Len(cmds) - 1].ok
    /\ cmds[Len(cmds)].cmd = "branch -D"
    /\ ~cmds[Len(cmds)].ok

\* C9: when Revert's checkout of the branch in the holding worktree succeeds
\* and the delete of the temp branch then fails, Revert returns the delete's
\* error, the worktree stays on the branch and the temp branch still exists,
\* checked out nowhere; a Revert following on that state issues no checkout:
\* it only deletes the temp branch, or under dry-run reports the pending
\* deletion.
C9_RevertAsymmetry ==
    /\ (Done /\ DeleteFailedAfterCheckout(call.op, trace))
       => /\ ret.err = ErrDelete(Tmp)
          /\ ret.result = NilResult
          /\ wt[loc.wt.Path].Branch = call.branch
          /\ Tmp \in DOMAIN refs
          /\ ~CheckedOutElsewhere(wt, Tmp, "")
    /\ (/\ prev.ret.done
        /\ DeleteFailedAfterCheckout(prev.call.op, prev.trace)
        /\ Done
        /\ call.op = "Revert"
        /\ NoFailures(trace))
       => /\ ret.err = NilError
          /\ wt = pre.wt
          /\ IF call.opts.DryRun
             THEN /\ Mutations(trace) = <<>>
                  /\ ret.result.Message = MsgWouldDelete
                  /\ refs = pre.refs
             ELSE /\ Mutations(trace) = <<Cmd("branch -D", call.cwd, Tmp, TRUE, FALSE)>>
                  /\ ret.result = [NilResult EXCEPT !.Success = TRUE,
                                                    !.Message = MsgDeleted(Tmp),
                                                    !.TempBranch = Tmp]
                  /\ refs = GitBranchDelete(pre.refs, Tmp)

C9_Witness ==
    /\ prev.ret.done
    /\ DeleteFailedAfterCheckout(prev.call.op, prev.trace)
    /\ prev.ret.err = ErrDelete("f" \o DefaultSuffix)
    /\ Done
    /\ call.op = "Revert"
    /\ ~call.opts.DryRun
    /\ ret.result.Message = MsgDeleted("f" \o DefaultSuffix)
    /\ "f" \o DefaultSuffix \notin DOMAIN refs
    /\ wt["/w1"].Branch = "f"

---------------------------------------------------------------------------
(* Properties of the suffix *)

\* the names a call made under suffix s may give git for the branch b
NamesOf(b, s) == {b, b \o s}

\* C18: TempBranchName(b) is b followed by the suffix current at the call: after
\* SetSuffix(s) with s non-empty it is b+s, while the name a call computed
\* before the change stays what it was; Detach and Revert use the name computed
\* at their start for the temp branch they look up, create, check out and
\* delete, and return it.
C18_TempBranchName ==
    /\ \A b \in BranchArgs : TempBranchName(b) = b \o suffix
    /\ (last.op = "SetSuffix" /\ last.arg # "")
       => \A b \in BranchArgs : TempBranchName(b) = b \o last.arg
    /\ call.op \in {"Detach", "Revert"}
       => /\ loc.tmpBranch \in {"", call.branch \o pre.suffix}
          /\ ret.result.TempBranch \in {"", call.branch \o pre.suffix}
          /\ \A i \in 1..Len(trace) :
                /\ trace[i].cmd \in {"branch", "branch -D"}
                   => trace[i].arg = call.branch \o pre.suffix
                /\ trace[i].cmd \in {"checkout", "rev-parse --verify"}
                   => trace[i].arg \in NamesOf(call.branch, pre.suffix)

C18_Witness ==
    /\ Done
    /\ call.op = "Detach"
    /\ ret.result.TempBranch = "f" \o DefaultSuffix
    /\ wt["/w1"].Branch = "f" \o DefaultSuffix
    /\ last.op = "SetSuffix"
    /\ last.arg = CustomSuffix
    /\ TempBranchName("f") = "f" \o CustomSuffix

\* C19: the suffix is never empty: it is the default until it is changed,
\* SetSuffix("") leaves it as it was, and so does LoadSuffixFromConfig when the
\* config query fails or gives an empty value; so branch+suffix is never the
\* branch itself.
C19_SuffixNonEmpty ==
    /\ suffix # ""
    /\ last.op = "none" => suffix = DefaultSuffix
    /\ (last.op = "SetSuffix" /\ last.arg = "") => suffix = last.before
    /\ (last.op = "LoadSuffixFromConfig" /\ (~last.ok \/ last.arg = ""))
       => suffix = last.before
    /\ \A b \in BranchArgs : TempBranchName(b) # b

C19_Witness ==
    /\ last.op = "SetSuffix"
    /\ last.arg = ""
    /\ last.before = CustomSuffix
    /\ suffix = CustomSuffix

\* C31: after a successful Detach made under one suffix, a Revert of the same
\* branch under another suffix, branch + that suffix not existing, returns the
\* "temporary branch does not exist" error for branch + the new suffix and
\* changes nothing: the worktree is still on the temp branch of the Detach and
\* that ref is still there.
C31_RevertUnderOtherSuffix ==
    (/\ PrevDetached
     /\ Done
     /\ call.op = "Revert"
     /\ prev.ret.result.TempBranch # call.branch \o pre.suffix
     /\ call.branch \o pre.suffix \notin DOMAIN pre.refs)
    => /\ ret.err = ErrTempBranchNotFound(call.branch \o pre.suffix)
       /\ ret.result = NilResult
       /\ Mutations(trace) = <<>>
       /\ Same
       /\ prev.ret.result.TempBranch \in DOMAIN refs
       /\ wt[prev.ret.result.WorktreePath].Branch = prev.ret.result.TempBranch

\* a Detach under the default suffix, SetSuffix("__tmp"), then Revert
C31_Witness ==
    /\ PrevDetached
    /\ Done
    /\ call.op = "Revert"
    /\ prev.ret.result.TempBranch = "f" \o DefaultSuffix
    /\ pre.suffix = CustomSuffix
    /\ last.op = "SetSuffix"
    /\ ret.err = ErrTempBranchNotFound("f" \o CustomSuffix)
    /\ wt["/w1"].Branch = "f" \o DefaultSuffix

---------------------------------------------------------------------------
(* Properties of the command line *)

\* the program has run to its end
Exited == cli.started /\ cli.stage = "exited"

\* C17: run with --checkout (and --yes, neither --dry-run nor --revert) on a
\* branch that a clean worktree other than the current one holds, the temp
\* branch not existing yet and the suffix not configured, the program leaves
\* the current worktree on the branch and the other worktree on branch+suffix.
C17_CheckoutOption ==
    (/\ Exited
     /\ "--checkout" \in cli.flags
     /\ "--yes" \in cli.flags
     /\ cli.flags \cap {"--dry-run", "--revert"} = {}
     /\ config = <<>>
     /\ cli.branch \in DOMAIN cli.before.refs
     /\ cli.branch \o DefaultSuffix \notin DOMAIN cli.before.refs
     /\ Holders(cli.before.wt, cli.branch, cli.cwd) # {}
     /\ \A p \in Paths : ~cli.before.wt[p].Dirty)
    => /\ wt[cli.cwd].Branch = cli.branch
       /\ \A W \in Holders(cli.before.wt, cli.branch, cli.cwd) :
             wt[W].Branch = cli.branch \o DefaultSuffix

\* the changes the program announces before it asks: a detach, or a revert of
\* a temp branch that a worktree other than the current one holds
Confirmable ==
    /\ cli.started
    /\ cli.args.ok
    /\ IF cli.args.Revert
       THEN Holders(cli.before.wt, TempBranchName(cli.branch), cli.cwd) # {}
       ELSE TRUE

\* the answers that mean yes: y or yes in any case, spaces around it, a newline
YesAnswers == { <<"y", "\n">>, <<" ", "Y", "E", "S", " ", "\n">> }

\* C25: without --yes, a detach or a revert of an attached temp branch issues
\* a changing command only after the prompt was answered y or yes (in any case,
\* spaces around it); after any other answer, or when no line could be read,
\* the program prints "Aborted.", returns no error and has issued no changing
\* command; with --yes no answer is read.
C25_Confirmation ==
    Confirmable =>
        /\ (~cli.args.Yes /\ Mutations(trace) # <<>>)
              => cli.asked /\ cli.stdin \in YesAnswers
        /\ (cli.asked /\ cli.stdin \notin YesAnswers)
              => /\ Exited
                 /\ cli.out[Len(cli.out)] = OutAborted
                 /\ cli.err = NilError
                 /\ trace = <<>>
                 /\ refs = cli.before.refs /\ wt = cli.before.wt
        /\ cli.args.Yes => ~cli.asked /\ \A i \in 1..Len(cli.out) : cli.out[i] # OutProceed

\* a detach confirmed with " YES "
C25_Witness ==
    /\ Exited
    /\ ~cli.args.Revert
    /\ ~cli.args.Yes
    /\ cli.asked
    /\ cli.stdin = <<" ", "Y", "E", "S", " ", "\n">>
    /\ Len(Mutations(trace)) = 2
    /\ cli.err = NilError
    /\ wt["/w1"].Branch = cli.branch \o suffix

\* C30: when a dry run of a detach has printed "would create branch" and
\* "would checkout in worktree", the same command without --dry-run and with
\* --yes, run on the repository as the dry run left it, does not end with the
\* not-found error, nor with the temp-branch conflict, nor with the
\* uncommitted-changes error for a worktree that has no changes to report.
C30_DryRunFaithful ==
    (Exited /\ cli.preview.shown) =>
        /\ cli.err # ErrNotFound(cli.branch)
        /\ cli.err # ErrTempBranchConflict(TempBranchName(cli.branch))
        /\ \A p \in Paths : cli.err = ErrUncommitted(p) => ~wt[p].Dirty /\ ~cli.args.Force

---------------------------------------------------------------------------
(* Properties of the order of the checks *)

\* the worktree the lookup resolves to: the first in listing order, other than
\* cwd, that has b checked out
Target(w, b, cwd) ==
    PathSeq[CHOOSE i \in 1..Len(PathSeq) :
               /\ PathSeq[i] \in Holders(w, b, cwd)
               /\ \A j \in 1..(i - 1) : PathSeq[j] \notin Holders(w, b, cwd)]

\* every query of the call was answered
Answered(cmds) == \A i \in 1..Len(cmds) : cmds[i].fault => Mutating(cmds[i])

\* C24: Detach decides by the first of its checks that fails: branch missing,
\* not-found error; else no other worktree on the branch, informational
\* success; else target dirty without force, uncommitted-changes error (also
\* when the temp branch exists); else temp branch present, conflict error; else
\* dry-run, the dry-run result; and a changing command is issued only when all
\* five have passed, the first one being the creation of the temp branch.
C24_CheckOrder ==
    (call.op = "Detach" /\ (pc # "idle" \/ ret.done)) =>
        LET b       == call.branch
            exists  == b \in DOMAIN pre.refs
            held    == Holders(pre.wt, b, call.cwd) # {}
            W       == Target(pre.wt, b, call.cwd)
            blocked == pre.wt[W].Dirty /\ ~call.opts.Force
            taken   == Tmp \in DOMAIN pre.refs
        IN  /\ (Done /\ Answered(trace)) =>
                /\ ~exists => ret.err = ErrNotFound(b)
                /\ (exists /\ ~held) =>
                      /\ ret.err = NilError
                      /\ ret.result.Message = MsgNotCheckedOut(b)
                /\ (exists /\ held /\ blocked) => ret.err = ErrUncommitted(W)
                /\ (exists /\ held /\ ~blocked /\ taken) => ret.err = ErrTempBranchConflict(Tmp)
                /\ (exists /\ held /\ ~blocked /\ ~taken /\ call.opts.DryRun) =>
                      /\ ret.err = NilError
                      /\ ret.result.Message = MsgDryRun
            /\ Mutations(trace) # <<>> =>
                /\ exists /\ held /\ ~taken /\ ~call.opts.DryRun
                /\ ~pre.wt[W].Dirty \/ call.opts.Force
                /\ Mutations(trace)[1].cmd = "branch"
                /\ Mutations(trace)[1].arg = Tmp
                /\ Mutations(trace)[1].dir = W

\* a dirty target, no force, and the temp branch there already
C24_Witness ==
    /\ Done
    /\ call.op = "Detach"
    /\ ~call.opts.Force
    /\ Holders(pre.wt, call.branch, call.cwd) = {"/w1"}
    /\ pre.wt["/w1"].Dirty
    /\ Tmp \in DOMAIN pre.refs
    /\ ret.err = ErrUncommitted("/w1")
    /\ Mutations(trace) = <<>>

---------------------------------------------------------------------------
(* Properties of a failed checkout in Revert *)

\* Revert's checkout of the branch failed
RevertCheckoutFailed ==
    /\ call.op = "Revert"
    /\ \E i \in 1..Len(trace) : trace[i].cmd = "checkout" /\ ~trace[i].ok

\* C27: when Revert's checkout of the branch in the worktree that holds the
\* temp branch fails, Revert returns that error at once: no delete is issued,
\* the temp branch is still there, the worktree is still on it, and the refs
\* and the worktrees are as before the call.
C27_RevertCheckoutFails ==
    RevertCheckoutFailed =>
        /\ Done
        /\ trace[Len(trace)].cmd = "checkout"
        /\ \A i \in 1..Len(trace) : trace[i].cmd # "branch -D"
        /\ ret.err = ErrCheckout(call.branch, loc.wt.Path)
        /\ ret.result = NilResult
        /\ Tmp \in DOMAIN refs
        /\ wt[loc.wt.Path].Branch = Tmp
        /\ Same

\* the branch is checked out in the current worktree, so git refuses
C27_Witness ==
    /\ Done
    /\ RevertCheckoutFailed
    /\ wt[call.cwd].Branch = call.branch
    /\ ~trace[Len(trace)].fault
    /\ wt["/w1"].Branch = Tmp
    /\ ret.err = ErrCheckout(call.branch, "/w1")

---------------------------------------------------------------------------
(* The frame of the engine *)

\* the worktrees whose checked-out branch differs between w and v
Moved(w, v) == {p \in Paths : w[p].Branch # v[p].Branch}

\* C28: in every step of every Detach and Revert, each ref other than
\* branch+suffix of the call's branch stays as it is (neither created nor
\* deleted nor moved, the branch itself among them), a worktree whose
\* checked-out branch changes is the call's target and not the current
\* worktree; and over a whole call at most one worktree, the target, has
\* changed its branch, the current worktree never.
C28_Frame ==
    /\ [][/\ \A n \in (DOMAIN refs \cup DOMAIN refs') \ {TempBranchName(call'.branch)} :
                n \in DOMAIN refs /\ n \in DOMAIN refs' /\ refs'[n] = refs[n]
          /\ call'.branch \in DOMAIN refs <=> call'.branch \in DOMAIN refs'
          /\ Moved(wt, wt') \subseteq {loc'.wt.Path} \ {call'.cwd}]_vars
    /\ [](pre # NoPre =>
             /\ Cardinality(Moved(pre.wt, wt)) <= 1
             /\ Moved(pre.wt, wt) \subseteq {loc.wt.Path} \ {call.cwd}
             /\ \A n \in (DOMAIN refs \cup DOMAIN pre.refs) \ {Tmp} :
                   n \in DOMAIN refs /\ n \in DOMAIN pre.refs /\ refs[n] = pre.refs[n])

\* a Revert after a Detach: the temp ref came and went, the target moved twice
C28_Witness ==
    /\ Done
    /\ call.op = "Revert"
    /\ prev.ret.done
    /\ prev.call.op = "Detach"
    /\ Len(Mutations(prev.trace)) = 2
    /\ Len(Mutations(trace)) = 2
    /\ NoFailures(trace)
    /\ Tmp \in DOMAIN pre.refs
    /\ Tmp \notin DOMAIN refs
    /\ Moved(pre.wt, wt) = {loc.wt.Path}

---------------------------------------------------------------------------
(* The repository stays well-formed *)

\* C29: whatever calls of Detach and Revert have run, also those that failed
\* part-way, no branch is checked out in two worktrees and every branch a
\* worktree has checked out exists as a ref.
C29_RepositoryWellFormed ==
    /\ \A p, q \in Paths : (p # q /\ wt[p].Branch # "") => wt[p].Branch # wt[q].Branch
    /\ \A p \in Paths : wt[p].Branch # "" => wt[p].Branch \in DOMAIN refs

\* a Revert that failed part-way: the worktree is back on the branch, the delete
\* of the temp branch failed
C29_Witness ==
    /\ Done
    /\ call.op = "Revert"
    /\ Len(Mutations(trace)) = 2
    /\ ret.err = ErrDelete(Tmp)
    /\ wt[loc.wt.Path].Branch = call.branch
    /\ Tmp \in DOMAIN refs

---------------------------------------------------------------------------
(* Termination *)

\* what a command is, whatever came of it
Issued(c) == [cmd |-> c.cmd, dir |-> c.dir, arg |-> c.arg]

\* C26: every Detach and every Revert, each of its commands returning, ends by
\* returning a result or an error; it issues at most eight commands, one after
\* the other and none of them twice.
C26_Terminates ==
    /\ [](/\ Len(trace) <= 8
          /\ \A i, j \in 1..Len(trace) : i < j => Issued(trace[i]) # Issued(trace[j])
          /\ Done => \/ ret.err = NilError /\ ret.result.Success
                     \/ ret.err # NilError /\ ret.result = NilResult)
    /\ (pc # "idle") ~> Done

\* the longest call: a Detach whose checkout failed and was rolled back
C26_Witness ==
    /\ Done
    /\ call.op = "Detach"
    /\ Len(trace) = 8
    /\ trace[8].cmd = "branch -D"
    /\ ret.err = ErrCheckout(Tmp, loc.wt.Path)

---------------------------------------------------------------------------
(* Properties of ParseWorktreeList *)

\* the lines that open a block: the first line, and each line after a blank one
BlockStarts(text) ==
    {i \in 1..Len(text) : text[i] # <<>> /\ (i = 1 \/ text[i - 1] = <<>>)}

\* the lines of the block that starts at line i
BlockLines(text, i) ==
    {j \in i..Len(text) : \A k \in i..j : text[k] # <<>>}

\* the lines of that block that say what is checked out
BranchLines(text, i) ==
    {j \in BlockLines(text, i) : HasPrefix(text[j], "branch refs/heads/")}

\* a porcelain-style text: lines that fit the scanner's buffer, blocks
\* separated by one blank line, a blank line after the last one or not, each
\* block opened by its only worktree line and holding at most one of a branch
\* line and a detached line
WellFormed(text) ==
    /\ \A i \in 1..Len(text) : Scans(text[i])
    /\ \A i \in 1..Len(text) : text[i] = <<>> => i > 1 /\ text[i - 1] # <<>>
    /\ \A i \in 1..Len(text) : HasPrefix(text[i], "worktree ") <=> i \in BlockStarts(text)
    /\ \A i \in BlockStarts(text) :
          Cardinality({j \in BlockLines(text, i) :
                          HasPrefix(text[j], "branch refs/heads/") \/ text[j] = <<"detached">>}) <= 1

\* the line that opens the k-th block
BlockStart(text, k) ==
    CHOOSE i \in BlockStarts(text) : Cardinality({j \in BlockStarts(text) : j <= i}) = k

\* the branch the block says, "" if it says none
BlockBranch(text, i) ==
    IF BranchLines(text, i) = {} THEN ""
    ELSE Join(Tail(text[CHOOSE j \in BranchLines(text, i) : TRUE]))

InsertBlank(text, i) == SubSeq(text, 1, i) \o << <<>> >> \o SubSeq(text, i + 1, Len(text))

\* the worktree lines after which no blank line comes: a record is open at the end
OpenAtEnd(text) ==
    {i \in 1..Len(text) : /\ HasPrefix(text[i], "worktree ")
                          /\ \A j \in i..Len(text) : text[j] # <<>>}

\* C21: the records are the same with one more blank line at the end of the
\* input, and with one more blank line next to any blank line; when the input
\* ends with a record open (every line read, no blank line after its last
\* worktree line), that record is the last of the output.
C21_TrailingBlankOptional ==
    parse.done =>
        /\ ParseWorktreeList(Append(parse.input, <<>>)) = parse.output
        /\ \A i \in 1..Len(parse.input) :
              parse.input[i] = <<>> =>
                  ParseWorktreeList(InsertBlank(parse.input, i)) = parse.output
        /\ (OpenAtEnd(parse.input) # {} /\ \A i \in 1..Len(parse.input) : Scans(parse.input[i]))
              => /\ parse.output # <<>>
                 /\ \E i \in OpenAtEnd(parse.input) :
                       /\ \A j \in OpenAtEnd(parse.input) : j <= i
                       /\ parse.output[Len(parse.output)].Path = Join(Tail(parse.input[i]))

\* two blank lines between two blocks, the second block not closed
C21_Witness ==
    /\ parse.done
    /\ parse.input = << <<"worktree ", "/r">>, <<>>, <<>>,
                        <<"worktree ", "/w1">>, <<"branch refs/heads/", "f">> >>
    /\ parse.output = <<Worktree("/r", ""), Worktree("/w1", "f")>>

\* the lines the parser acts on
Recognized(line) ==
    HasPrefix(line, "worktree ") \/ HasPrefix(line, "branch refs/heads/") \/ line = <<>>

\* the records the parser can return for the texts of the model
Records ==
    [Path : {"/r", "/w1"}, Branch : BranchArgs \cup {""}, nil : {FALSE}]

\* the branch lines that come before every worktree line
EarlyBranch(text) ==
    {i \in 1..Len(text) : /\ HasPrefix(text[i], "branch refs/heads/")
                          /\ \A j \in 1..i : ~HasPrefix(text[j], "worktree ")}

\* the text without the lines whose index is in drop
RECURSIVE Without(_, _, _)
Without(text, drop, i) ==
    IF i > Len(text) THEN <<>>
    ELSE (IF i \in drop THEN <<>> ELSE <<text[i]>>) \o Without(text, drop, i + 1)

\* C22: for every input ParseWorktreeList returns a sequence of records; the
\* lines of unknown kind and the branch lines before any worktree line change
\* nothing in it (the input without them gives the same records), and the
\* empty input gives the empty sequence.
C22_Total ==
    parse.done =>
        /\ \A k \in 1..Len(parse.output) : parse.output[k] \in Records
        /\ ParseWorktreeList(SelectSeq(parse.input, Recognized)) = parse.output
        /\ ParseWorktreeList(Without(parse.input, EarlyBranch(parse.input), 1)) = parse.output
        /\ parse.input = <<>> => parse.output = <<>>

---------------------------------------------------------------------------
(* Properties of FindWorktreeByBranch *)

\* C23: FindWorktreeByBranch returns the first record of the list whose branch
\* is the one asked for and whose path is not the excluded one, and nil when
\* there is none; a record it returns never has the excluded path.
C23_FindFirst ==
    parse.found.called =>
        LET list == parse.output
            r == parse.found.result
            Match(i) == /\ list[i].Branch = parse.found.branch
                        /\ list[i].Path # parse.found.excludePath
        IN  /\ (\E i \in 1..Len(list) : Match(i))
                  => \E i \in 1..Len(list) :
                        Match(i) /\ (\A j \in 1..(i - 1) : ~Match(j)) /\ r = list[i]
            /\ (\A i \in 1..Len(list) : ~Match(i)) => r = NilWorktree
            /\ ~r.nil => r.Path # parse.found.excludePath

\* three worktrees listed with the branch, the first of them excluded
C23_Witness ==
    /\ parse.found.called
    /\ parse.output = <<Worktree("/w1", "f"), Worktree("/w2", "f"), Worktree("/r", "f")>>
    /\ parse.found.branch = "f"
    /\ parse.found.excludePath = "/w1"
    /\ parse.found.result = Worktree("/w2", "f")

---------------------------------------------------------------------------
(* Properties of two processes that run Detach at the same time *)

\* the two processes
Racers == <<Running, peer.proc>>

\* the process has issued the creation of its temp branch, with this outcome
Created(p, ok) ==
    \E i \in 1..Len(p.trace) : p.trace[i].cmd = "branch" /\ p.trace[i].ok = ok

\* the processes whose creation succeeded
Winners == {i \in 1..2 : Created(Racers[i], TRUE)}

\* C32: when two processes running Detach on the same branch have both passed
\* the check that the temp branch is absent before either has created it, and
\* both have returned: a process whose creation failed returned the "failed to
\* create branch" error and issued neither a checkout nor a `branch -D`; and if
\* no command failed that git would have accepted, exactly one creation
\* succeeded, its process returned the detached result, and the temp branch is
\* there, checked out in the target worktree.
C32_CheckThenAct ==
    (peer.raced /\ \A i \in 1..2 : Racers[i].pc = "idle" /\ Racers[i].ret.done)
    => /\ \A i \in 1..2 :
            LET p == Racers[i]
            IN  /\ Created(p, TRUE) \/ Created(p, FALSE)
                /\ ~Created(p, TRUE)
                     => /\ p.ret.err = ErrCreate(p.loc.tmpBranch)
                        /\ p.ret.result = NilResult
                        /\ Len(Mutations(p.trace)) = 1
       /\ (\A i \in 1..2 : NoFailures(Racers[i].trace))
            => /\ Cardinality(Winners) = 1
               /\ \A i \in Winners :
                     LET p == Racers[i]
                     IN  /\ p.ret.err = NilError
                         /\ p.ret.result.TempBranch = p.loc.tmpBranch
                         /\ p.loc.tmpBranch \in DOMAIN refs
                         /\ wt[p.loc.wt.Path].Branch = p.loc.tmpBranch

\* both processes were about to create f_wt_detach; the one that runs created
\* it and detached f, the one that waits was refused and has returned
C32_Witness ==
    /\ peer.raced
    /\ pc = "idle" /\ ret.done /\ ret.err = NilError
    /\ Created(Running, TRUE)
    /\ NoFailures(trace)
    /\ peer.proc.pc = "idle"
    /\ peer.proc.pre.refs = pre.refs
    /\ "f" \o DefaultSuffix \notin DOMAIN pre.refs
    /\ peer.proc.ret.err = ErrCreate("f" \o DefaultSuffix)
    /\ NoFailures(peer.proc.trace)
    /\ wt["/w1"].Branch = "f" \o DefaultSuffix

=============================================================================
